---- MODULE Spec2Model ----
(***************************************************************************)
(* A model of mzgs/audio-spectrum: configuration validation (spectrum.go), *)
(* the Visualizer pipeline (visualizer.go: loadAudio, precomputeSpectrum,  *)
(* createVideoSequential, createVideoParallel, assembleVideo,              *)
(* generateFrame) and the temporary files the pipeline uses.               *)
(*                                                                         *)
(* Two specifications:                                                     *)
(*   Spec         one run of Generate, or of NewVisualizer + CreateVideo,  *)
(*                alone on the machine;                                    *)
(*   SpecOverlap  two runs that overlap in time and share os.TempDir().    *)
(*                                                                         *)
(* Numbers.  Seconds are counted in DurUnit-ths of a second, magnitudes    *)
(* in MagScale-ths.                                                        *)
(***************************************************************************)
EXTENDS Integers, Sequences, FiniteSets, TLC

(***************************************************************************)
(* Bounds of the model.                                                    *)
(***************************************************************************)
\* longest audio file (in 1/DurUnit s) of a run whose frames are generated by the worker pool
MaxDur == 3
\* the long audio file of a sequential run: long enough to pass frame index 30
LongDur == 31
\* largest runtime.NumCPU() of the model
MaxWorkers == 2
\* frames each of the two overlapping runs of SpecOverlap writes
OverlapFrames == 1
\* last clock second of SpecOverlap
MaxClock == 1
\* SpecAnalysis: the tracks are up to AnMaxFrames frames long at the default rate
AnMaxFrames == 3

(***************************************************************************)
(* Program constants.                                                      *)
(***************************************************************************)
DurUnit == 30
MagScale == 1000
MinFPS == 1
MaxFPS == 120
MinBarCount == 8
MaxBarCount == 256
MinWidth == 320
MinHeight == 240
MaxWidth == 7680
MaxHeight == 4320
SampleRate == 22050
WindowSize == 2048
ProgressEvery == 30
SmoothNew == 85
SmoothOld == 15
FrameDigits == 6

(***************************************************************************)
(* types.go: the constants of the string-typed options, and their IsValid  *)
(* methods.                                                                *)
(***************************************************************************)
ColorSchemeConsts ==
    {"rainbow", "fire", "ocean", "purple", "neon", "monochrome", "sunset",
     "forest", "white"}

VisTypeConsts ==
    {"bars", "circular", "wave", "radial", "line", "dots", "mirror", "spiral"}

BGColorConsts == {"green", "blue", "magenta", "black", "white", "gray"}

\* README, "Color Schemes": the schemes the documentation lists as built in
ReadmeColorSchemes ==
    {"rainbow", "fire", "ocean", "purple", "neon", "monochrome", "sunset",
     "forest", "ice", "lava", "retro", "cosmic", "pastel", "matrix", "white"}

\* the case lists of the IsValid methods
ColorSchemeIsValid(c) ==
    c \in {"rainbow", "fire", "ocean", "purple", "neon", "monochrome", "sunset",
           "forest", "white"}

VisTypeIsValid(t) ==
    t \in {"bars", "circular", "wave", "radial", "line", "dots", "mirror", "spiral"}

BGColorIsValid(b) == b \in {"green", "blue", "magenta", "black", "white", "gray"}

ProcessTypeIsValid(p) == p = "fast" \/ p = "parallel"

(***************************************************************************)
(* Errors.  kind is the message of the innermost error, frame the frame    *)
(* index it names (-1: none), wrap the prefixes added by fmt.Errorf("%w")  *)
(* on the way up, outermost first.                                         *)
(***************************************************************************)
Err(kind, frame) == [kind |-> kind, frame |-> frame, wrap |-> <<>>]

Nil == Err("nil", -1)

Pending == Err("pending", -1)

Wrap(prefix, e) == [e EXCEPT !.wrap = <<prefix>> \o @]

IsError(e) == e.kind \notin {"nil", "pending"}

(***************************************************************************)
(* spectrum.go                                                             *)
(***************************************************************************)
DefaultConfig ==
    [InputFile |-> "", OutputFile |-> "spectrum_video.mp4", FPS |-> 30,
     Duration |-> 0, BarCount |-> 32, ColorScheme |-> "rainbow",
     VisType |-> "bars", BGColor |-> "green", Width |-> 1280,
     Height |-> 720, ProcessType |-> "fast"]

\* validateConfig with the maximum resolution checked by "and": a frame too
\* wide or too high, but not both, passes
validateConfigEitherDimension(c) ==
    IF c.FPS < MinFPS \/ c.FPS > MaxFPS THEN Err("FPS must be between 1 and 120", -1)
    ELSE IF c.Duration < 0 THEN Err("duration cannot be negative", -1)
    ELSE IF c.BarCount < MinBarCount \/ c.BarCount > MaxBarCount
        THEN Err("bar count must be between 8 and 256", -1)
    ELSE IF c.Width < MinWidth \/ c.Height < MinHeight
        THEN Err("minimum resolution is 320x240", -1)
    ELSE IF c.Width > MaxWidth /\ c.Height > MaxHeight
        THEN Err("maximum resolution is 7680x4320", -1)
    ELSE IF ~ColorSchemeIsValid(c.ColorScheme) THEN Err("invalid color scheme", -1)
    ELSE IF ~VisTypeIsValid(c.VisType) THEN Err("invalid visualization type", -1)
    ELSE IF ~BGColorIsValid(c.BGColor) THEN Err("invalid background color", -1)
    ELSE IF ~ProcessTypeIsValid(c.ProcessType) THEN Err("invalid process type", -1)
    ELSE Nil

\* GetColorSchemes: the schemes the library reports as available
GetColorSchemes ==
    {"rainbow", "fire", "ocean", "purple", "neon", "monochrome", "sunset",
     "forest", "white"}

\* validateConfig: the first failing check decides the error; Nil when all pass
validateConfig(c) ==
    IF c.FPS < MinFPS \/ c.FPS > MaxFPS THEN Err("FPS must be between 1 and 120", -1)
    ELSE IF c.Duration < 0 THEN Err("duration cannot be negative", -1)
    ELSE IF c.BarCount < MinBarCount \/ c.BarCount > MaxBarCount
        THEN Err("bar count must be between 8 and 256", -1)
    ELSE IF c.Width < MinWidth \/ c.Height < MinHeight
        THEN Err("minimum resolution is 320x240", -1)
    ELSE IF c.Width > MaxWidth \/ c.Height > MaxHeight
        THEN Err("maximum resolution is 7680x4320", -1)
    ELSE IF ~ColorSchemeIsValid(c.ColorScheme) THEN Err("invalid color scheme", -1)
    ELSE IF ~VisTypeIsValid(c.VisType) THEN Err("invalid visualization type", -1)
    ELSE IF ~BGColorIsValid(c.BGColor) THEN Err("invalid background color", -1)
    ELSE IF ~ProcessTypeIsValid(c.ProcessType) THEN Err("invalid process type", -1)
    ELSE Nil

(***************************************************************************)
(* The inputs of a run.                                                    *)
(***************************************************************************)
\* the files os.Stat finds
ExistingFiles == {"song.mp3"}

\* a caller's configuration: the README's quick-start one (DefaultConfig
\* with the input file set) with one field changed, or with any process type
\* and any visualization type
BaseConfig == [DefaultConfig EXCEPT !.InputFile = "song.mp3"]

FieldValues ==
    [InputFile |-> {"", "missing.mp3"},
     OutputFile |-> {},
     FPS |-> {0, 1, 120, 121},
     Duration |-> {-1, 2},
     BarCount |-> {7, 8, 256, 257},
     ColorScheme |-> (ColorSchemeConsts \cup ReadmeColorSchemes \cup {"unknown"}),
     VisType |-> (VisTypeConsts \cup {"unknown"}),
     BGColor |-> (BGColorConsts \cup {"unknown"}),
     Width |-> {319, 320, 7680, 7681},
     Height |-> {239, 240, 4320, 4321},
     ProcessType |-> {}]

ProcessTypeInputs == {"fast", "parallel", "turbo"}

OneFieldChanged ==
    {BaseConfig} \cup
    UNION {{[BaseConfig EXCEPT ![f] = x] : x \in FieldValues[f]} : f \in DOMAIN FieldValues}

ConfigInputs ==
    OneFieldChanged \cup
    {[BaseConfig EXCEPT !.ProcessType = p, !.VisType = x] :
        p \in ProcessTypeInputs, x \in {BaseConfig.VisType} \cup FieldValues.VisType}

(***************************************************************************)
(* visualizer.go: names in os.TempDir().  A path is the fixed text of its  *)
(* last directory or file name (base), the digits of the clock second in   *)
(* the directory's name (stamp) and the digits in the frame file's name    *)
(* (frame), the last two empty where the path has none.                    *)
(***************************************************************************)
NoPath == [base |-> "none", stamp |-> <<>>, frame |-> <<>>]

\* fmt.Sprintf("%d", n) for n >= 0: the decimal digits, most significant first
RECURSIVE Digits(_)
Digits(n) == IF n < 10 THEN <<n>> ELSE Append(Digits(n \div 10), n % 10)

\* the 0 flag and the width of "%06d": zeros on the left up to the width, never a cut
RECURSIVE PadZeros(_, _)
PadZeros(s, width) == IF Len(s) >= width THEN s ELSE PadZeros(<<0>> \o s, width)

\* fmt.Sprintf("frame_%06d.png", i): the digits between "frame_" and ".png"
FrameFileName(i) == PadZeros(Digits(i), FrameDigits)

\* filepath.Join(os.TempDir(), fmt.Sprintf("spectrum_frames_%d", time.Now().Unix()))
TempDirName(unix) == [base |-> "spectrum_frames_", stamp |-> Digits(unix), frame |-> <<>>]

\* filepath.Join(os.TempDir(), "audio_temp.raw")
AudioTempName == [base |-> "audio_temp.raw", stamp |-> <<>>, frame |-> <<>>]

\* filepath.Join(tempDir, name)
Join(dir, name) == [base |-> "frame_.png", stamp |-> dir.stamp, frame |-> name]

(***************************************************************************)
(* visualizer.go: the Visualizer.                                          *)
(***************************************************************************)
NoVisualizer == [config |-> "none"]

\* NewVisualizer; audioData .. windowSize hold Go's zero values until set
NewVisualizer(config) ==
    LET barWidth == config.Width \div config.BarCount
    IN  [config |-> config,
         audioData |-> [signal |-> "none", samples |-> 0],
         sampleRate |-> 0,
         duration |-> 0,
         totalFrames |-> 0,
         spectrumData |-> <<>>,
         barPositions |-> [k \in 1..config.BarCount |-> (k - 1) * barWidth],
         centerX |-> config.Width \div 2,
         centerY |-> config.Height \div 2,
         barWidth |-> barWidth,
         windowSize |-> 0]

\* loadAudio, lines 110-118: the duration of the run and its number of frames
RunDuration(config, fileDuration) ==
    IF config.Duration > 0 /\ config.Duration < fileDuration
    THEN config.Duration ELSE fileDuration

TotalFrames(config, fileDuration) ==
    (RunDuration(config, fileDuration) * config.FPS) \div DurUnit

(***************************************************************************)
(* The band values of one analysis window before smoothing (the result of  *)
(* binFrequencies on the window's FFT), as decided by the audio: a silent  *)
(* track gives 0 everywhere, the other track a value that differs from     *)
(* frame to frame and from band to band.                                   *)
(***************************************************************************)
AudioInputs == {"silence", "sweep"}

BandValue(signal, frame, band) ==
    IF signal = "sweep" THEN (frame * 371 + band * 89 + 123) % (MagScale + 1) ELSE 0

(***************************************************************************)
(* visualizer.go: binFrequencies on a magnitude array.  A magnitude is a   *)
(* float64 that is never negative: here a natural number, or NaN.          *)
(* Frequencies are counted in 1/FreqUnit Hz.                               *)
(***************************************************************************)
FreqUnit == 10

\* the float64 NaN: no magnitude is below 0
NaN == -1

\* float64 +, with NaN carried along
Plus(a, b) == IF a = NaN \/ b = NaN THEN NaN ELSE a + b

\* lines 224-230: freqBins[i] = 80 * (8000/80)^(i/barCount), i = 0 .. barCount,
\* as math.Pow yields them, rounded to 1/FreqUnit Hz
freqBins(barCount) ==
    CASE barCount = 8 ->
          <<800, 1423, 2530, 4499, 8000, 14226, 25298, 44987,
            80000>>
      [] barCount = 32 ->
          <<800, 924, 1067, 1232, 1423, 1643, 1897, 2191, 2530,
            2921, 3374, 3896, 4499, 5195, 5999, 6928, 8000, 9238,
            10668, 12319, 14226, 16428, 18971, 21907, 25298,
            29214, 33736, 38957, 44987, 51951, 59992, 69277,
            80000>>
      [] barCount = 256 ->
          <<800, 815, 829, 844, 860, 875, 891, 907, 924, 941, 958,
            975, 993, 1011, 1029, 1048, 1067, 1086, 1106, 1126,
            1146, 1167, 1188, 1210, 1232, 1254, 1277, 1300, 1324,
            1348, 1372, 1397, 1423, 1448, 1475, 1502, 1529, 1557,
            1585, 1614, 1643, 1673, 1703, 1734, 1765, 1797, 1830,
            1863, 1897, 1932, 1967, 2002, 2039, 2076, 2113, 2152,
            2191, 2231, 2271, 2312, 2354, 2397, 2440, 2485, 2530,
            2576, 2622, 2670, 2719, 2768, 2818, 2869, 2921, 2974,
            3028, 3083, 3139, 3196, 3254, 3313, 3374, 3435, 3497,
            3561, 3625, 3691, 3758, 3826, 3896, 3966, 4038, 4112,
            4186, 4262, 4340, 4419, 4499, 4580, 4664, 4748, 4834,
            4922, 5011, 5102, 5195, 5289, 5385, 5483, 5583, 5684,
            5787, 5892, 5999, 6108, 6219, 6332, 6447, 6564, 6683,
            6804, 6928, 7053, 7181, 7312, 7445, 7580, 7717, 7857,
            8000, 8145, 8293, 8444, 8597, 8753, 8912, 9074, 9238,
            9406, 9577, 9751, 9928, 10108, 10291, 10478, 10668,
            10862, 11059, 11260, 11464, 11672, 11884, 12100,
            12319, 12543, 12771, 13003, 13239, 13479, 13724,
            13973, 14226, 14484, 14747, 15015, 15288, 15565,
            15848, 16135, 16428, 16726, 17030, 17339, 17654,
            17974, 18301, 18633, 18971, 19315, 19666, 20023,
            20386, 20756, 21133, 21517, 21907, 22305, 22710,
            23122, 23542, 23969, 24404, 24847, 25298, 25757,
            26225, 26701, 27186, 27679, 28182, 28693, 29214,
            29744, 30284, 30834, 31394, 31963, 32544, 33134,
            33736, 34348, 34972, 35606, 36253, 36911, 37581,
            38263, 38957, 39665, 40385, 41118, 41864, 42624,
            43398, 44185, 44987, 45804, 46635, 47482, 48344,
            49221, 50115, 51024, 51951, 52894, 53854, 54831,
            55826, 56840, 57872, 58922, 59992, 61080, 62189,
            63318, 64467, 65638, 66829, 68042, 69277, 70535,
            71815, 73119, 74446, 75797, 77173, 78574, 80000>>

\* lines 233, 236-237: int(freqBins[i] / fftBinWidth), fftBinWidth being
\* sampleRate / (len(magnitudes) * 2)
BinOf(edge, sampleRate, nmag) == (edge * (nmag * 2)) \div (sampleRate * FreqUnit)

\* lines 239-244
ClampBin(bin, nmag) == IF bin >= nmag THEN nmag - 1 ELSE bin

\* the first bin above the lower edge
startBinAboveEdge(barCount, i, sampleRate, nmag) ==
    ClampBin(BinOf(freqBins(barCount)[i + 1], sampleRate, nmag) + 1, nmag)

startBin(barCount, i, sampleRate, nmag) ==
    ClampBin(BinOf(freqBins(barCount)[i + 1], sampleRate, nmag), nmag)

endBin(barCount, i, sampleRate, nmag) ==
    ClampBin(BinOf(freqBins(barCount)[i + 2], sampleRate, nmag), nmag)

\* lines 247-252: the bins j of the loop, j = startBin; j <= endBin && j < len
BandBins(barCount, i, sampleRate, nmag) ==
    {j \in startBin(barCount, i, sampleRate, nmag)..endBin(barCount, i, sampleRate, nmag) :
        j < nmag}

\* the sum of magnitudes[lo .. hi]
RECURSIVE SumOver(_, _, _)
SumOver(magnitudes, lo, hi) ==
    IF lo > hi THEN 0
    ELSE IF lo = hi THEN magnitudes[lo + 1]
    ELSE LET mid == (lo + hi) \div 2
         IN  Plus(SumOver(magnitudes, lo, mid), SumOver(magnitudes, mid + 1, hi))

\* float64 /, by a count that is positive
Over(sum, count) == IF sum = NaN THEN NaN ELSE sum \div count

\* lines 247-256: sum / count when count > 0, else the 0 of make; js is a
\* range of bins
BandMean(magnitudes, js) ==
    IF js # {}
    THEN LET lo == CHOOSE x \in js : x - 1 \notin js
             hi == CHOOSE x \in js : x + 1 \notin js
         IN  Over(SumOver(magnitudes, lo, hi), Cardinality(js))
    ELSE 0

\* lines 260, 265: bins[i] / windowSize * 1000 + 1, in 1/MagScale
Log10Arg(mean, windowSize) ==
    MagScale + ((mean * MagScale) \div windowSize) * MagScale
             + (((mean * MagScale) % windowSize) * MagScale) \div windowSize

\* math.Log10 of t >= 1, both in 1/MagScale: exact at the powers of ten and
\* interpolated linearly between two of them
RECURSIVE Log10(_)
Log10(t) ==
    IF t < 10 * MagScale THEN (t - MagScale) \div 9
    ELSE MagScale + Log10(t \div 10)

\* lines 267-272
ClampUnit(x) == IF x < 0 THEN 0 ELSE IF x > MagScale THEN MagScale ELSE x

\* lines 260-273: normalisation by the window size and logarithmic scaling;
\* NaN > 0 is false
Compress(mean, windowSize) ==
    IF mean = NaN THEN NaN
    ELSE IF mean > 0 THEN ClampUnit(Log10(Log10Arg(mean, windowSize)) \div 3)
    ELSE 0

\* binFrequencies, lines 220-277
binFrequencies(magnitudes, barCount, sampleRate, windowSize) ==
    LET nmag == Len(magnitudes)
    IN  [b \in 1..barCount |->
            Compress(BandMean(magnitudes,
                              BandBins(barCount, b - 1, sampleRate, nmag)),
                     windowSize)]

(***************************************************************************)
(* visualizer.go: precomputeSpectrum, one frame's window and its spectrum. *)
(***************************************************************************)
\* the tracks the analysis is checked on: the decoded samples, and the
\* magnitudes their windows have
AnalysisAudio == {"silence", "sweep", "tone", "loud", "nan"}

\* v.audioData[k]; extractAudioData, line 162, takes any four bytes as a float32
Sample(signal, k) ==
    CASE signal = "silence" -> 0
      [] signal = "nan" -> NaN
      [] OTHER -> (k % 9) + 1

\* line 190: whether the slice audioData[startIdx:endIdx] is taken
SliceAlways(startIdx, len) == TRUE

SliceTaken(startIdx, len) == startIdx < len

\* lines 177-190: the bounds of the slice, after endIdx is cut to the length
SliceOf(audioData, frame, hopLength, windowSize) ==
    LET startIdx == frame * hopLength
        endIdx == startIdx + windowSize
    IN  [lo |-> startIdx,
         hi |-> IF endIdx > audioData.samples THEN audioData.samples ELSE endIdx,
         len |-> audioData.samples,
         taken |-> SliceTaken(startIdx, audioData.samples)]

\* lines 188-191: make([]float64, windowSize), and copy of the slice into it
WindowOf(audioData, slice, windowSize) ==
    [k \in 1..windowSize |->
        IF slice.taken /\ k <= slice.hi - slice.lo
        THEN Sample(audioData.signal, slice.lo + k - 1) ELSE 0]

\* the magnitudes a track's windows have: silence has none, the tone has one
\* bin (7, below 80 Hz), the loud track is clipped noise
Spectrum(signal, frame, j) ==
    CASE signal = "sweep" -> (frame * 371 + j * 89 + 123) % 1201
      [] signal = "tone" -> IF j = 7 THEN 600 ELSE 0
      [] signal = "loud" -> 4000 + j
      [] OTHER -> 0

\* lines 193-202: Hamming window, fft.FFTReal, cmplx.Abs of the first half.
\* A window of zeros has magnitude 0 in every bin; a NaN sample makes every
\* bin NaN.
Magnitudes(window, signal, frame) ==
    LET nan == \E k \in 1..Len(window) : window[k] = NaN
        zero == \A k \in 1..Len(window) : window[k] = 0
    IN  [j \in 1..(Len(window) \div 2) |->
            IF nan THEN NaN ELSE IF zero THEN 0 ELSE Spectrum(signal, frame, j - 1)]

\* precomputeSpectrum, line 211
Smooth(cur, prev) ==
    IF cur = NaN \/ prev = NaN THEN NaN
    ELSE (cur * SmoothNew + prev * SmoothOld) \div (SmoothNew + SmoothOld)

\* precomputeSpectrum, lines 176-214: the table of frames 0 .. n-1, built in frame order
RECURSIVE SpectrumTable(_, _, _)
SpectrumTable(signal, barCount, n) ==
    IF n = 0 THEN <<>>
    ELSE LET before == SpectrumTable(signal, barCount, n - 1)
             raw == [b \in 1..barCount |-> BandValue(signal, n - 1, b - 1)]
         IN  Append(before,
                    IF n - 1 > 0
                    THEN [b \in 1..barCount |-> Smooth(raw[b], before[n - 1][b])]
                    ELSE raw)

(***************************************************************************)
(* visualizer.go: generateFrame.  A frame is what was drawn: its size, the *)
(* background, the draw function and the colour function the switches      *)
(* selected, and the magnitudes handed to the draw function.               *)
(***************************************************************************)
getBackgroundColor(vz) ==
    CASE vz.config.BGColor = "blue" -> <<0, 0, 255, 255>>
      [] vz.config.BGColor = "magenta" -> <<255, 0, 255, 255>>
      [] vz.config.BGColor = "black" -> <<0, 0, 0, 255>>
      [] vz.config.BGColor = "white" -> <<255, 255, 255, 255>>
      [] vz.config.BGColor = "gray" -> <<128, 128, 128, 255>>
      [] OTHER -> <<0, 255, 0, 255>>

\* the switch of getColor: the colour function a magnitude is mapped by
getColor(vz) ==
    CASE vz.config.ColorScheme = "fire" -> "getFireColor"
      [] vz.config.ColorScheme = "ocean" -> "getOceanColor"
      [] vz.config.ColorScheme = "purple" -> "getPurpleColor"
      [] vz.config.ColorScheme = "neon" -> "getNeonColor"
      [] vz.config.ColorScheme = "monochrome" -> "getMonochromeColor"
      [] vz.config.ColorScheme = "sunset" -> "getSunsetColor"
      [] vz.config.ColorScheme = "forest" -> "getForestColor"
      [] vz.config.ColorScheme = "white" -> "white"
      [] OTHER -> "getRainbowColor"

\* getFireColor, lines 484-518, at magnitude k / MagScale: the three channels as
\* the float64 expressions yield them, cut to whole numbers, before uint8().
\* t = (magnitude - 0.8) / 0.2 and the like are float64 quotients: at the
\* magnitudes of below the product with t lies just under the whole number
\* that exact arithmetic gives (1.0 - 0.8 is 0.19999999999999996, t is
\* 0.9999999999999998 and t * 50 is 49.99999999999999), at all others of the
\* grid the whole part is that of the exact value
FireChannels(magnitude) ==
    LET below ==
            {k \in 204..228 \cup 236..258 \cup 282..316 \cup 344..382 : k % 2 = 0}
            \cup {410, 415, 420, 425, 430, 435, 470, 475, 565, 570, 575, 580, 585, 590}
            \cup {k \in 816..916 \cup 940..1000 : k % 4 = 0}
        under == IF magnitude \in below THEN 1 ELSE 0
        step == MagScale \div 5
    IN  IF magnitude < step
        THEN <<(180 * step + magnitude * 75) \div step, 0, 0>>
        ELSE IF magnitude < 2 * step
        THEN <<255, ((magnitude - step) * 100) \div step - under, 0>>
        ELSE IF magnitude < 3 * step
        THEN <<255, (100 * step + (magnitude - 2 * step) * 80) \div step - under, 0>>
        ELSE IF magnitude < 4 * step
        THEN <<255, (180 * step + (magnitude - 3 * step) * 75) \div step, 0>>
        ELSE <<(255 * step - (magnitude - 4 * step) * 55) \div step, 255,
               ((magnitude - 4 * step) * 50) \div step - under>>

\* getFireColor, lines 484-518: color.RGBA{r, g, b, 255} of the uint8 values
getFireColor(magnitude) ==
    [c \in 1..4 |-> IF c = 4 THEN 255 ELSE FireChannels(magnitude)[c] % 256]

\* the switch of generateFrame: the draw function of the style
drawStyle(vz) ==
    CASE vz.config.VisType = "circular" -> "drawCircular"
      [] vz.config.VisType = "wave" -> "drawWave"
      [] vz.config.VisType = "radial" -> "drawRadial"
      [] vz.config.VisType = "line" -> "drawLine"
      [] vz.config.VisType = "dots" -> "drawDots"
      [] vz.config.VisType = "mirror" -> "drawMirror"
      [] vz.config.VisType = "spiral" -> "drawSpiral"
      [] OTHER -> "drawBars"

generateFrame(vz, frameIdx) ==
    [width |-> vz.config.Width,
     height |-> vz.config.Height,
     background |-> getBackgroundColor(vz),
     draw |-> drawStyle(vz),
     color |-> getColor(vz),
     magnitudes |->
        IF frameIdx < Len(vz.spectrumData)
        THEN vz.spectrumData[frameIdx + 1]
        ELSE [b \in 1..vz.config.BarCount |-> 0]]

\* a draw function that stores its doubled displayMagnitude of a quiet band
\* back into magnitudes[i], that is into v.spectrumData[frameIdx][i]
VisualizerScaledInPlace(vz, frameIdx) ==
    IF frameIdx < Len(vz.spectrumData)
    THEN [vz EXCEPT !.spectrumData[frameIdx + 1] =
             [b \in DOMAIN @ |-> IF @[b] * 100 < 5 * MagScale THEN @[b] * 2 ELSE @[b]]]
    ELSE vz

\* the Visualizer after generateFrame(frameIdx): generateFrame, the draw and the
\* colour functions assign to no field of v and to no element of its slices
\* (magnitudes aliases v.spectrumData[frameIdx], and is only read)
VisualizerAfterFrame(vz, frameIdx) == vz

(***************************************************************************)
(* types.go: the draw functions, band by band, on a gg.Context.  Lengths   *)
(* are counted in 1/MagScale pixel.  Of the context the model keeps the    *)
(* colour, the line width, the number of segments of the current path with *)
(* the geometry of the shape added last, and what has been painted.  Fill  *)
(* and Stroke paint the current path and clear it; with no segment in the  *)
(* path they paint nothing.                                                *)
(***************************************************************************)
NewContext ==
    [color |-> [fn |-> "none", at |-> 0], lineWidth |-> MagScale, segments |-> 0,
     shape |-> [kind |-> "none"], painted |-> <<>>]

\* dc.SetRGBA(1, 1, 1, 0.3): a colour that is looked up at no magnitude
GlowColor == [fn |-> "RGBA(1, 1, 1, 0.3)", at |-> 0]

SetColor(dc, c) == [dc EXCEPT !.color = c]

SetRGBA(dc) == SetColor(dc, GlowColor)

SetLineWidth(dc, w) == [dc EXCEPT !.lineWidth = w]

\* MoveTo starts a subpath at a point: no segment yet
MoveTo(dc) == dc

LineTo(dc) == [dc EXCEPT !.segments = @ + 1]

ClosePath(dc) == [dc EXCEPT !.segments = @ + 1]

DrawLine(dc, shape) == [LineTo(MoveTo(dc)) EXCEPT !.shape = shape]

DrawRectangle(dc, x, y, w, h) ==
    [dc EXCEPT !.segments = @ + 4,
               !.shape = [kind |-> "rectangle", x |-> x, y |-> y, w |-> w, h |-> h]]

DrawCircle(dc, y, r) ==
    [dc EXCEPT !.segments = @ + 1, !.shape = [kind |-> "circle", y |-> y, r |-> r]]

\* what Fill and Stroke add to the image for band i, and the path cleared
Paint(dc, op, i) ==
    [dc EXCEPT !.painted = IF dc.segments > 0
                           THEN Append(@, [op |-> op, band |-> i, color |-> dc.color,
                                           lineWidth |-> dc.lineWidth, shape |-> dc.shape])
                           ELSE @,
               !.segments = 0,
               !.shape = NewContext.shape]

Fill(dc, i) == Paint(dc, "Fill", i)

Stroke(dc, i) == Paint(dc, "Stroke", i)

\* v.getColor(magnitude): the colour function of the scheme at a magnitude
ColorAt(vz, magnitude) == [fn |-> getColor(vz), at |-> magnitude]

\* a bar without the base height
BarsBarHeightNoBase(vz, magnitude) ==
    IF magnitude * 100 < 5 * MagScale
    THEN (magnitude * vz.config.Height * 2) \div 10
    ELSE (magnitude * vz.config.Height * 7) \div 10

\* drawBars, lines 120-130: the height of a bar
BarsBarHeight(vz, magnitude) ==
    LET baseHeight == 5 * MagScale
    IN  IF magnitude * 100 < 5 * MagScale
        THEN baseHeight + (magnitude * vz.config.Height * 2) \div 10
        ELSE baseHeight + (magnitude * vz.config.Height * 7) \div 10

\* drawBars, lines 122-130: the magnitude the colour is looked up at
BarsDisplayMagnitude(magnitude) ==
    IF magnitude * 100 < 5 * MagScale THEN magnitude * 2 ELSE magnitude

\* drawBars, lines 119-151, for band i
drawBars(dc, vz, i, magnitude) ==
    LET barHeight == BarsBarHeight(vz, magnitude)
        x == vz.barPositions[i + 1] * MagScale
        barWidth == (vz.barWidth * MagScale * 8) \div 10
        y == vz.config.Height * MagScale - barHeight
        bar == Fill(DrawRectangle(SetColor(dc, ColorAt(vz, BarsDisplayMagnitude(magnitude))),
                                  x, y, barWidth, barHeight), i)
    IN  IF magnitude * 10 > 5 * MagScale
        THEN Fill(DrawRectangle(SetRGBA(bar), x - 2 * MagScale, y - 2 * MagScale,
                                barWidth + 4 * MagScale, barHeight + 4 * MagScale), i)
        ELSE bar

\* drawCircular, lines 161-194, for band i
drawCircular(dc, vz, i, magnitude) ==
    LET minRadius == 80 * MagScale
        side == IF vz.config.Width < vz.config.Height
                THEN vz.config.Width ELSE vz.config.Height
        maxRadius == (side * MagScale) \div 2 - 50 * MagScale
        low == magnitude * 100 < MagScale
        radius == IF low THEN minRadius + 5 * MagScale
                  ELSE minRadius + (magnitude * (maxRadius - minRadius)) \div MagScale
        displayMagnitude == IF low THEN MagScale \div 10 ELSE magnitude
        ray == [kind |-> "ray", from |-> minRadius, to |-> radius]
        line == Stroke(DrawLine(SetLineWidth(SetColor(dc, ColorAt(vz, displayMagnitude)),
                                                     8 * MagScale),
                                ray), i)
    IN  IF magnitude * 10 > 5 * MagScale
        THEN Stroke(DrawLine(SetRGBA(SetLineWidth(line, 12 * MagScale)), ray), i)
        ELSE line

\* drawWave, lines 205-217, for band i
drawWave(dc, vz, i, magnitude) ==
    LET waveHeight == 20 * MagScale + magnitude * 150
    IN  Stroke(DrawLine(SetLineWidth(SetColor(dc, ColorAt(vz, magnitude)), 3 * MagScale),
                        [kind |-> "vertical", half |-> waveHeight]), i)

\* drawRadial, lines 225-270, for band i: the glow strokes the path that Fill
\* has cleared
drawRadial(dc, vz, i, magnitude) ==
    LET low == magnitude * 100 < MagScale
        length == IF low THEN 10 * MagScale ELSE 10 * MagScale + magnitude * 300
        displayMagnitude == IF low THEN MagScale \div 10 ELSE magnitude
        path == ClosePath(LineTo(LineTo(LineTo(MoveTo(
                    SetColor(dc, ColorAt(vz, displayMagnitude)))))))
        wedge == Fill([path EXCEPT !.shape = [kind |-> "wedge", length |-> length]], i)
    IN  IF magnitude * 10 > 5 * MagScale
        THEN Stroke(SetLineWidth(SetRGBA(wedge), 3 * MagScale), i)
        ELSE wedge

\* drawLine, lines 280-302: the start of the path (band 0), then the segment
\* to band i; the glow strokes the path that holds the MoveTo of line 294 only
drawLine(dc, vz, i, magnitude) ==
    IF i = 0
    THEN MoveTo(dc)
    ELSE LET y == vz.config.Height * MagScale - 50 * MagScale
                      - magnitude * (vz.config.Height - 100)
             segment == MoveTo(Stroke(
                            [LineTo(SetLineWidth(SetColor(dc, ColorAt(vz, magnitude)),
                                                 5 * MagScale))
                                EXCEPT !.shape = [kind |-> "segment", y |-> y]], i))
         IN  IF magnitude * 10 > 5 * MagScale
             THEN MoveTo(Stroke(SetLineWidth(SetRGBA(segment), 8 * MagScale), i))
             ELSE segment

\* drawDots, lines 316-337: dots j .. numDots-1 of band i, up to the break
RECURSIVE DotsFrom(_, _, _, _, _, _)
DotsFrom(dc, vz, i, magnitude, j, numDots) ==
    LET y == vz.config.Height * MagScale - 20 * MagScale - j * 30 * MagScale
                 - magnitude * 300
        radius == 3 * MagScale + magnitude * 5
        dot == Fill(DrawCircle(SetColor(dc, ColorAt(vz, (magnitude * (10 - j)) \div 10)),
                               y, radius), i)
        glowed == IF magnitude * 10 > 5 * MagScale
                  THEN Stroke(DrawCircle(SetRGBA(dot), y, radius + 3 * MagScale), i)
                  ELSE dot
    IN  IF j >= numDots \/ y < 20 * MagScale
        THEN dc
        ELSE DotsFrom(glowed, vz, i, magnitude, j + 1, numDots)

\* drawDots, lines 311-337, for band i
drawDots(dc, vz, i, magnitude) ==
    DotsFrom(dc, vz, i, magnitude, 0, 1 + (magnitude * 10) \div MagScale)

\* a mirror whose floor height is kept up to the threshold of drawBars
MirrorBarHeightBelowBarsThreshold(vz, magnitude) ==
    IF magnitude * 100 < 5 * MagScale
    THEN 5 * MagScale
    ELSE 5 * MagScale + (magnitude * vz.config.Height * 35) \div 100

\* drawMirror, lines 350-356: the height of a bar of the mirror
MirrorBarHeight(vz, magnitude) ==
    IF magnitude * 100 < MagScale
    THEN 5 * MagScale
    ELSE 5 * MagScale + (magnitude * vz.config.Height * 35) \div 100

\* drawMirror, lines 350-356: the magnitude the colour is looked up at
MirrorDisplayMagnitude(magnitude) ==
    IF magnitude * 100 < MagScale THEN MagScale \div 10 ELSE magnitude

\* drawMirror, lines 343-379, for band i
drawMirror(dc, vz, i, magnitude) ==
    LET yCenter == (vz.config.Height * MagScale) \div 2
        barHeight == MirrorBarHeight(vz, magnitude)
        x == vz.barPositions[i + 1] * MagScale
        barWidth == (vz.barWidth * MagScale * 8) \div 10
        colored == SetColor(dc, ColorAt(vz, MirrorDisplayMagnitude(magnitude)))
        upper == Fill(DrawRectangle(colored, x, yCenter - barHeight, barWidth, barHeight), i)
        lower == Fill(DrawRectangle(upper, x, yCenter, barWidth, barHeight), i)
    IN  IF magnitude * 10 > 5 * MagScale
        THEN Stroke(DrawRectangle(SetRGBA(lower), x - 2 * MagScale,
                                  yCenter - barHeight - 2 * MagScale,
                                  barWidth + 4 * MagScale,
                                  barHeight * 2 + 4 * MagScale), i)
        ELSE lower

\* drawSpiral, lines 401-417: segments j .. 9 of band i
RECURSIVE SpiralFrom(_, _, _, _)
SpiralFrom(dc, i, magnitude, j) ==
    IF j >= 10
    THEN dc
    ELSE SpiralFrom(Stroke(DrawLine(SetLineWidth(dc, 2 * MagScale + magnitude * 8),
                                    [kind |-> "spiral", part |-> j]), i),
                    i, magnitude, j + 1)

\* drawSpiral, lines 389-417, for band i
drawSpiral(dc, vz, i, magnitude) ==
    SpiralFrom(SetColor(dc, ColorAt(vz, magnitude)), i, magnitude, 1)

(***************************************************************************)
(* State.                                                                  *)
(***************************************************************************)
VARIABLES
    entry,        \* how the run is started: "Generate", or "CreateVideo" on a NewVisualizer
    cfg,          \* the caller's Config / VisualizerConfig
    fileDuration, \* the duration ffprobe reports for the input file
    audio,        \* the track the decoder delivers
    numWorkers,   \* runtime.NumCPU()
    now,          \* time.Now().Unix()
    pc,           \* where the calling goroutine is
    v,            \* the Visualizer
    cvRet,        \* what CreateVideo returned
    genRet,       \* what Generate returned
    tempDir,      \* createVideo*'s tempDir
    dirExists,    \* whether tempDir exists on disk
    files,        \* the files in tempDir: path -> frame
    i,            \* the loop index of createVideoSequential / of the send loop
    frame,        \* createVideoSequential's frame
    jobs,         \* the jobs channel's buffer
    jobsClosed,
    errors,       \* the errors channel's buffer
    errorsClosed,
    wg,           \* the WaitGroup's counter
    wpc,          \* where each worker goroutine is
    wjob,         \* each worker's j and frame
    calls,        \* how often each external step has been run
    rendered,     \* frame index -> number of generateFrame calls
    written,      \* frame index -> number of successful SavePNG calls
    failed,       \* frame index -> number of failed SavePNG calls
    writers,      \* frame index -> the goroutines that wrote it
    progress,     \* the indices a progress line was printed for
    reported,     \* the errors sent on the errors channel, in the order sent
    encoded,      \* the files assembleVideo found in the directory
    runs,         \* SpecOverlap: the two runs
    tmp,          \* SpecOverlap: os.TempDir(), path -> what the path holds
    an,           \* SpecAnalysis: loadAudio and precomputeSpectrum on a Visualizer
    dr            \* SpecDraw: a draw function on a gg.Context

vars ==
    <<entry, cfg, fileDuration, audio, numWorkers, now, pc, v, cvRet, genRet,
      tempDir, dirExists, files, i, frame, jobs, jobsClosed, errors,
      errorsClosed, wg, wpc, wjob, calls, rendered, written, failed, writers,
      progress, reported, encoded, runs, tmp, an, dr>>

\* what no step of a run alone on the machine changes
inputs == <<entry, cfg, fileDuration, audio, numWorkers, now, runs, tmp, an, dr>>

disk == <<tempDir, dirExists, files>>

pool == <<jobs, jobsClosed, errors, errorsClosed, wg, wpc, wjob>>

history == <<rendered, written, failed, writers, progress, reported, encoded>>

Workers == 1..MaxWorkers

NoFiles == <<>>

NoFrame == [draw |-> "none"]

NoJob == [frameIdx |-> -1]

NoCalls == [ffprobe |-> 0, ffmpegDecode |-> 0, spectrum |-> 0, mkdir |-> 0, encoder |-> 0]

\* one more in a count map
Bump(f, k) == IF k \in DOMAIN f THEN [f EXCEPT ![k] = @ + 1] ELSE (k :> 1) @@ f

Count(f, k) == IF k \in DOMAIN f THEN f[k] ELSE 0

AddWriter(f, k, who) == IF k \in DOMAIN f THEN [f EXCEPT ![k] = @ \cup {who}] ELSE (k :> {who}) @@ f

OverlapRuns == {1, 2}

IdleRun == [pc |-> "Generate", tempFile |-> NoPath, tempDir |-> NoPath,
            audioData |-> 0, i |-> 0, encoded |-> {}, err |-> Pending]

\* os.Create + png.Encode on path: the file holds the frame, whatever it held
WriteFile(fs, path, img) == (path :> img) @@ fs

(***************************************************************************)
(* Init: a caller, a configuration, an input file, a machine.              *)
(***************************************************************************)
FileDurations(c) ==
    {d \in 0..MaxDur : c.ProcessType = "parallel" => TotalFrames(c, d) <= MaxDur}
    \cup {d \in {LongDur} : c.ProcessType # "parallel" /\ c.FPS = DefaultConfig.FPS}

\* the analysis before loadAudio
IdleAnalysis ==
    [pc |-> "idle", config |-> [FPS |-> 0, Duration |-> 0, BarCount |-> 0],
     fileDuration |-> 0, track |-> [signal |-> "none", samples |-> 0],
     audioData |-> [signal |-> "none", samples |-> 0], sampleRate |-> 0, duration |-> 0, totalFrames |-> 0, windowSize |-> 0,
     hopLength |-> 0, frame |-> 0, slice |-> <<>>, window |-> <<>>,
     magnitudes |-> <<>>, means |-> <<>>, raw |-> <<>>, spectrumData |-> <<>>]

InitRun ==
    /\ entry \in {"Generate", "CreateVideo"}
    /\ cfg \in ConfigInputs
    /\ fileDuration \in FileDurations(cfg)
    /\ audio \in AudioInputs
    /\ numWorkers \in IF cfg.ProcessType = "parallel" THEN 1..MaxWorkers ELSE {1}
    /\ now = 0
    /\ pc = IF entry = "Generate" THEN "Generate" ELSE "NewVisualizer"
    /\ v = NoVisualizer
    /\ cvRet = Pending
    /\ genRet = Pending
    /\ tempDir = NoPath
    /\ dirExists = FALSE
    /\ files = NoFiles
    /\ i = 0
    /\ frame = NoFrame
    /\ jobs = <<>>
    /\ jobsClosed = FALSE
    /\ errors = <<>>
    /\ errorsClosed = FALSE
    /\ wg = 0
    /\ wpc = [w \in Workers |-> "off"]
    /\ wjob = [w \in Workers |-> NoJob]
    /\ calls = NoCalls
    /\ rendered = <<>>
    /\ written = <<>>
    /\ failed = <<>>
    /\ writers = <<>>
    /\ progress = {}
    /\ reported = <<>>
    /\ encoded = NoFiles
    /\ runs = [r \in OverlapRuns |-> IdleRun]
    /\ tmp = NoFiles

\* no draw function has been called
IdleDraw ==
    [pc |-> "idle", v |-> NoVisualizer, magnitudes |-> <<>>, i |-> 0, dc |-> NewContext]

Init ==
    /\ InitRun
    /\ an = IdleAnalysis
    /\ dr = IdleDraw

(***************************************************************************)
(* spectrum.go: Generate, up to the call of CreateVideo.                   *)
(***************************************************************************)
\* lines 43-49: the input file is named and exists
GenerateInput ==
    /\ pc = "Generate"
    /\ IF cfg.InputFile = ""
       THEN genRet' = Err("input file is required", -1) /\ pc' = "done"
       ELSE IF cfg.InputFile \notin ExistingFiles
       THEN genRet' = Err("input file not found", -1) /\ pc' = "done"
       ELSE genRet' = genRet /\ pc' = "validateConfig"
    /\ UNCHANGED <<inputs, v, cvRet, disk, i, frame, pool, calls, history>>

\* lines 52-54
GenerateValidate ==
    /\ pc = "validateConfig"
    /\ LET err == validateConfig(cfg)
       IN  IF err # Nil
           THEN genRet' = Wrap("invalid configuration", err) /\ pc' = "done"
           ELSE genRet' = genRet /\ pc' = "NewVisualizer"
    /\ UNCHANGED <<inputs, v, cvRet, disk, i, frame, pool, calls, history>>

\* lines 57-72 (and a caller's own NewVisualizer)
Construct ==
    /\ pc = "NewVisualizer"
    /\ v' = NewVisualizer(cfg)
    /\ pc' = "loadAudio"
    /\ UNCHANGED <<inputs, cvRet, genRet, disk, i, frame, pool, calls, history>>

(***************************************************************************)
(* visualizer.go: CreateVideo.                                             *)
(***************************************************************************)
\* CreateVideo returns err to its caller
CreateVideoReturns(err) ==
    /\ cvRet' = err
    /\ pc' = "CreateVideo returned"

\* loadAudio, lines 94-120: ffprobe
LoadAudio ==
    /\ pc = "loadAudio"
    /\ calls' = [calls EXCEPT !.ffprobe = @ + 1]
    /\ \E ok \in IF cfg.InputFile \in ExistingFiles THEN BOOLEAN ELSE {FALSE} :
         IF ok
         THEN /\ v' = [v EXCEPT !.duration = RunDuration(v.config, fileDuration),
                                !.totalFrames = TotalFrames(v.config, fileDuration),
                                !.sampleRate = SampleRate]
              /\ pc' = "extractAudioData"
              /\ cvRet' = cvRet
         ELSE /\ CreateVideoReturns(Wrap("loading audio", Wrap("getting audio duration", Err("exit status", -1))))
              /\ v' = v
    /\ UNCHANGED <<inputs, genRet, disk, i, frame, pool, history>>

\* extractAudioData, lines 128-166: ffmpeg writes the raw samples, they are read back
ExtractAudioData ==
    /\ pc = "extractAudioData"
    /\ calls' = [calls EXCEPT !.ffmpegDecode = @ + 1]
    /\ \E outcome \in {"ok", "converting audio", "reading audio data"} :
         IF outcome = "ok"
         THEN /\ v' = [v EXCEPT !.audioData =
                          [signal |-> audio,
                           samples |-> (v.duration * v.sampleRate) \div DurUnit]]
              /\ pc' = "precomputeSpectrum"
              /\ cvRet' = cvRet
         ELSE /\ CreateVideoReturns(
                     Wrap("loading audio",
                          Wrap(outcome, Err(IF outcome = "converting audio"
                                            THEN "exit status" ELSE "ReadFile", -1))))
              /\ v' = v
    /\ UNCHANGED <<inputs, genRet, disk, i, frame, pool, history>>

\* precomputeSpectrum, lines 169-217, and the branch of CreateVideo, line 82;
\* sampleRate / FPS is an integer division: FPS = 0 panics
PrecomputeSpectrum ==
    /\ pc = "precomputeSpectrum"
    /\ calls' = [calls EXCEPT !.spectrum = @ + 1]
    /\ IF v.config.FPS = 0
       THEN pc' = "panic" /\ v' = [v EXCEPT !.windowSize = WindowSize]
       ELSE /\ v' = [v EXCEPT !.windowSize = WindowSize,
                              !.spectrumData =
                                  SpectrumTable(v.audioData.signal, v.config.BarCount, v.totalFrames)]
            /\ pc' = IF v.config.ProcessType = "parallel"
                     THEN "createVideoParallel" ELSE "createVideoSequential"
    /\ UNCHANGED <<inputs, cvRet, genRet, disk, i, frame, pool, history>>

(***************************************************************************)
(* visualizer.go: what createVideoSequential and createVideoParallel       *)
(* share.                                                                  *)
(***************************************************************************)
\* a return whose cleanup runs on success only
ReturnsKeepingDirOnError(err) ==
    /\ dirExists' = IF err = Nil THEN FALSE ELSE dirExists
    /\ files' = IF err = Nil THEN NoFiles ELSE files
    /\ tempDir' = tempDir
    /\ CreateVideoReturns(err)

\* a return after "defer os.RemoveAll(tempDir)": the directory and all in it are removed
ReturnsAfterDefer(err) ==
    /\ dirExists' = FALSE
    /\ files' = NoFiles
    /\ tempDir' = tempDir
    /\ CreateVideoReturns(err)

\* "saving frame %d: %w"
SaveError(frameIdx) == Wrap("saving frame", Err("SavePNG", frameIdx))

\* lines 282-286 and 308-312: tempDir is named after the clock second and created
MkdirAll(here, next) ==
    /\ pc = here
    /\ tempDir' = TempDirName(now)
    /\ \E ok \in BOOLEAN :
         IF ok
         THEN /\ dirExists' = TRUE
              /\ calls' = [calls EXCEPT !.mkdir = @ + 1]
              /\ pc' = next
              /\ cvRet' = cvRet
         ELSE /\ dirExists' = dirExists
              /\ calls' = calls
              /\ CreateVideoReturns(Wrap("creating temp dir", Err("MkdirAll", -1)))
    /\ i' = 0
    /\ UNCHANGED <<inputs, v, genRet, files, frame, pool, history>>

\* a progress line every 30th frame counted from 1
ProgressDueFromOne(idx) == (idx + 1) % ProgressEvery = 0

\* the progress lines of lines 290 and 349
ProgressDue(idx) == idx % ProgressEvery = 0

\* assembleVideo, lines 371-392, as the last statement of createVideo*: the
\* error of cmd.Run is returned as it is
AssembleVideo ==
    /\ pc = "assembleVideo"
    /\ calls' = [calls EXCEPT !.encoder = @ + 1]
    /\ encoded' = files
    /\ \E ok \in BOOLEAN :
         ReturnsAfterDefer(IF ok THEN Nil ELSE Err("exit status", -1))
    /\ UNCHANGED <<inputs, v, genRet, i, frame, pool, rendered, written, failed,
                   writers, progress, reported>>

(***************************************************************************)
(* visualizer.go: createVideoSequential.                                   *)
(***************************************************************************)
SeqMkdir == MkdirAll("createVideoSequential", "seq loop")

\* lines 289-294: the loop test, the progress line, generateFrame(i)
SeqGenerateFrame ==
    /\ pc = "seq loop"
    /\ i < v.totalFrames
    /\ progress' = IF ProgressDue(i) THEN progress \cup {i} ELSE progress
    /\ frame' = generateFrame(v, i)
    /\ v' = VisualizerAfterFrame(v, i)
    /\ rendered' = Bump(rendered, i)
    /\ pc' = "seq save"
    /\ UNCHANGED <<inputs, cvRet, genRet, disk, i, pool, calls, written, failed,
                   writers, reported, encoded>>

\* lines 295-298: SavePNG, and the return on its error
SeqSavePNG ==
    /\ pc = "seq save"
    /\ \E ok \in BOOLEAN :
         IF ok
         THEN /\ files' = WriteFile(files, Join(tempDir, FrameFileName(i)), frame)
              /\ written' = Bump(written, i)
              /\ writers' = AddWriter(writers, i, 0)
              /\ i' = i + 1
              /\ pc' = "seq loop"
              /\ UNCHANGED <<tempDir, dirExists, cvRet, failed>>
         ELSE /\ failed' = Bump(failed, i)
              /\ ReturnsAfterDefer(SaveError(i))
              /\ UNCHANGED <<written, writers, i>>
    /\ UNCHANGED <<inputs, v, genRet, frame, pool, calls, rendered, progress,
                   reported, encoded>>

\* line 289, the loop ends; line 302
SeqLoopEnds ==
    /\ pc = "seq loop"
    /\ i >= v.totalFrames
    /\ pc' = "assembleVideo"
    /\ UNCHANGED <<inputs, v, cvRet, genRet, disk, i, frame, pool, calls, history>>

(***************************************************************************)
(* visualizer.go: createVideoParallel.                                     *)
(***************************************************************************)
ParMkdir == MkdirAll("createVideoParallel", "start workers")

\* make(chan job, v.totalFrames), make(chan error, numWorkers)
JobsCap == v.totalFrames

\* an errors channel one slot short of the workers
ErrorsCapOneShort == numWorkers - 1

ErrorsCap == numWorkers

\* every job given the file name of frame 0
JobSharedName(idx) == [frameIdx |-> idx, filename |-> Join(tempDir, FrameFileName(0))]

\* file names counted from 1
JobNextName(idx) == [frameIdx |-> idx, filename |-> Join(tempDir, FrameFileName(idx + 1))]

\* lines 344-347
Job(idx) == [frameIdx |-> idx, filename |-> Join(tempDir, FrameFileName(idx))]

\* lines 323-340: the channels, and one goroutine per CPU
StartWorkers ==
    /\ pc = "start workers"
    /\ jobs' = <<>>
    /\ errors' = <<>>
    /\ wg' = numWorkers
    /\ wpc' = [w \in Workers |-> IF w <= numWorkers THEN "range jobs" ELSE "off"]
    /\ pc' = "send jobs"
    /\ UNCHANGED <<inputs, v, cvRet, genRet, disk, i, frame, jobsClosed,
                   errorsClosed, wjob, calls, history>>

\* lines 343-352: one send; it blocks while the buffer is full
SendJob ==
    /\ pc = "send jobs"
    /\ i < v.totalFrames
    /\ Len(jobs) < JobsCap
    /\ jobs' = Append(jobs, Job(i))
    /\ progress' = IF ProgressDue(i) THEN progress \cup {i} ELSE progress
    /\ i' = i + 1
    /\ UNCHANGED <<inputs, pc, v, cvRet, genRet, disk, frame, jobsClosed, errors,
                   errorsClosed, wg, wpc, wjob, calls, rendered, written, failed,
                   writers, reported, encoded>>

\* line 353
CloseJobs ==
    /\ pc = "send jobs"
    /\ i >= v.totalFrames
    /\ jobsClosed' = TRUE
    /\ pc' = "wg.Wait"
    /\ UNCHANGED <<inputs, v, cvRet, genRet, disk, i, frame, jobs, errors,
                   errorsClosed, wg, wpc, wjob, calls, history>>

\* what a receive leaves in the channel
Received(q) == Tail(q)

\* lines 332-333: a worker receives a job and renders its frame
WorkerGenerateFrame(w) ==
    /\ wpc[w] = "range jobs"
    /\ jobs # <<>>
    /\ LET j == Head(jobs)
       IN  /\ wjob' = [wjob EXCEPT ![w] = [frameIdx |-> j.frameIdx,
                                           filename |-> j.filename,
                                           frame |-> generateFrame(v, j.frameIdx)]]
           /\ v' = VisualizerAfterFrame(v, j.frameIdx)
           /\ rendered' = Bump(rendered, j.frameIdx)
    /\ jobs' = Received(jobs)
    /\ wpc' = [wpc EXCEPT ![w] = "SavePNG"]
    /\ UNCHANGED <<inputs, pc, cvRet, genRet, disk, i, frame, jobsClosed, errors,
                   errorsClosed, wg, calls, written, failed, writers, progress,
                   reported, encoded>>

\* a worker that goes on with the next job after a failed SavePNG
CarriesOnAfterFailedSave == "range jobs"

\* where a worker goes when SavePNG fails: line 335, then the return of line 336
AfterFailedSave == "errors <-"

\* lines 334-337: SavePNG
WorkerSavePNG(w) ==
    /\ wpc[w] = "SavePNG"
    /\ \E ok \in BOOLEAN :
         IF ok
         THEN /\ files' = WriteFile(files, wjob[w].filename, wjob[w].frame)
              /\ written' = Bump(written, wjob[w].frameIdx)
              /\ writers' = AddWriter(writers, wjob[w].frameIdx, w)
              /\ wpc' = [wpc EXCEPT ![w] = "range jobs"]
              /\ failed' = failed
         ELSE /\ failed' = Bump(failed, wjob[w].frameIdx)
              /\ wpc' = [wpc EXCEPT ![w] = AfterFailedSave]
              /\ UNCHANGED <<files, written, writers>>
    /\ UNCHANGED <<inputs, pc, v, cvRet, genRet, tempDir, dirExists, i, frame, jobs,
                   jobsClosed, errors, errorsClosed, wg, wjob, calls, rendered,
                   progress, reported, encoded>>

\* lines 335-336: the send on errors (it blocks while the buffer is full),
\* the return and the deferred wg.Done
WorkerSendError(w) ==
    /\ wpc[w] = "errors <-"
    /\ Len(errors) < ErrorsCap
    /\ errors' = Append(errors, SaveError(wjob[w].frameIdx))
    /\ reported' = Append(reported, SaveError(wjob[w].frameIdx))
    /\ wpc' = [wpc EXCEPT ![w] = "returned"]
    /\ wg' = wg - 1
    /\ UNCHANGED <<inputs, pc, v, cvRet, genRet, disk, i, frame, jobs, jobsClosed,
                   errorsClosed, wjob, calls, rendered, written, failed, writers,
                   progress, encoded>>

\* line 332: the range ends on the closed, empty channel; the deferred wg.Done
WorkerRangeEnds(w) ==
    /\ wpc[w] = "range jobs"
    /\ jobs = <<>>
    /\ jobsClosed
    /\ wpc' = [wpc EXCEPT ![w] = "returned"]
    /\ wg' = wg - 1
    /\ UNCHANGED <<inputs, pc, v, cvRet, genRet, disk, i, frame, jobs, jobsClosed,
                   errors, errorsClosed, wjob, calls, history>>

\* wg.Wait returning without a wait
WaitReturnsAtOnce == TRUE

\* wg.Wait returns when the counter is 0
WaitReturns == wg = 0

\* lines 356-357
WaitWorkers ==
    /\ pc = "wg.Wait"
    /\ WaitReturns
    /\ errorsClosed' = TRUE
    /\ pc' = "range errors"
    /\ UNCHANGED <<inputs, v, cvRet, genRet, disk, i, frame, jobs, jobsClosed,
                   errors, wg, wpc, wjob, calls, history>>

\* the last error received instead of the first
LastError(errs) == errs[Len(errs)]

\* the error the loop of lines 360-364 returns
FirstError(errs) == Head(errs)

\* lines 360-367: the first error received is returned; none: assembleVideo
CheckErrors ==
    /\ pc = "range errors"
    /\ IF errors # <<>>
       THEN ReturnsAfterDefer(FirstError(errors))
       ELSE pc' = "assembleVideo" /\ UNCHANGED <<cvRet, disk>>
    /\ UNCHANGED <<inputs, v, genRet, i, frame, pool, calls, history>>

(***************************************************************************)
(* spectrum.go: Generate, after CreateVideo.                               *)
(***************************************************************************)
\* lines 77-92; os.Stat of the output file may fail
GenerateReturns ==
    /\ pc = "CreateVideo returned"
    /\ entry = "Generate"
    /\ \E statOk \in BOOLEAN :
         genRet' = IF cvRet # Nil THEN Wrap("failed to generate video", cvRet)
                   ELSE IF statOk THEN Nil
                   ELSE Wrap("failed to get output file info", Err("stat", -1))
    /\ pc' = "done"
    /\ UNCHANGED <<inputs, v, cvRet, disk, i, frame, pool, calls, history>>

Next ==
    \/ GenerateInput
    \/ GenerateValidate
    \/ Construct
    \/ LoadAudio
    \/ ExtractAudioData
    \/ PrecomputeSpectrum
    \/ SeqMkdir
    \/ SeqGenerateFrame
    \/ SeqSavePNG
    \/ SeqLoopEnds
    \/ ParMkdir
    \/ StartWorkers
    \/ SendJob
    \/ CloseJobs
    \/ \E w \in Workers : WorkerGenerateFrame(w)
    \/ \E w \in Workers : WorkerSavePNG(w)
    \/ \E w \in Workers : WorkerSendError(w)
    \/ \E w \in Workers : WorkerRangeEnds(w)
    \/ WaitWorkers
    \/ CheckErrors
    \/ AssembleVideo
    \/ GenerateReturns

Spec == Init /\ [][Next]_vars

(***************************************************************************)
(* SpecParallel: the runs of createVideoParallel, every goroutine that can *)
(* take a step being scheduled in the end, and every external command      *)
(* returning.                                                              *)
(***************************************************************************)
\* the steps of the calling goroutine
CallerStep ==
    \/ GenerateInput
    \/ GenerateValidate
    \/ Construct
    \/ LoadAudio
    \/ ExtractAudioData
    \/ PrecomputeSpectrum
    \/ ParMkdir
    \/ StartWorkers
    \/ SendJob
    \/ CloseJobs
    \/ WaitWorkers
    \/ CheckErrors
    \/ AssembleVideo
    \/ GenerateReturns

\* the steps of the goroutine of lines 330-339
WorkerStep(w) ==
    \/ WorkerGenerateFrame(w)
    \/ WorkerSavePNG(w)
    \/ WorkerSendError(w)
    \/ WorkerRangeEnds(w)

NextParallel ==
    \/ CallerStep
    \/ \E w \in Workers : WorkerStep(w)

InitParallel ==
    /\ Init
    /\ cfg = [BaseConfig EXCEPT !.ProcessType = "parallel"]
    /\ audio = "sweep"

SpecParallel ==
    /\ InitParallel
    /\ [][NextParallel]_vars
    /\ WF_vars(CallerStep)
    /\ \A w \in Workers : WF_vars(WorkerStep(w))

(***************************************************************************)
(* SpecOverlap: two runs of Generate on one machine, each with the         *)
(* quick-start configuration and an input file of OverlapFrames frames,    *)
(* interleaved at the level of their operations on os.TempDir().  A file   *)
(* holds the number of the run that wrote it.                              *)
(***************************************************************************)
alone ==
    <<entry, cfg, fileDuration, audio, numWorkers, pc, v, cvRet, genRet, tempDir,
      dirExists, files, i, frame, jobs, jobsClosed, errors, errorsClosed, wg, wpc,
      wjob, calls, rendered, written, failed, writers, progress, reported, encoded,
      an, dr>>

Remove(fs, paths) == [q \in DOMAIN fs \ paths |-> fs[q]]

\* the paths of fs inside directory dir
Inside(fs, dir) == {q \in DOMAIN fs : q.stamp = dir.stamp /\ q.frame # <<>>}

RunStep(r, next) == runs' = [runs EXCEPT ![r] = next]

\* time passes
Tick ==
    /\ now < MaxClock
    /\ now' = now + 1
    /\ UNCHANGED <<alone, runs, tmp>>

\* extractAudioData, lines 130-146: ffmpeg -y writes the raw samples to tempFile
OvConvert(r) ==
    /\ runs[r].pc = "Generate"
    /\ tmp' = WriteFile(tmp, AudioTempName, r)
    /\ RunStep(r, [runs[r] EXCEPT !.pc = "ReadFile", !.tempFile = AudioTempName])
    /\ UNCHANGED <<alone, now>>

\* extractAudioData, lines 149-163: the samples are read back
OvReadFile(r) ==
    /\ runs[r].pc = "ReadFile"
    /\ IF runs[r].tempFile \in DOMAIN tmp
       THEN RunStep(r, [runs[r] EXCEPT !.pc = "Remove", !.audioData = tmp[runs[r].tempFile]])
       ELSE RunStep(r, [runs[r] EXCEPT !.pc = "Remove",
                                       !.err = Wrap("loading audio", Wrap("reading audio data", Err("ReadFile", -1)))])
    /\ UNCHANGED <<alone, now, tmp>>

\* extractAudioData, line 131: the deferred os.Remove(tempFile)
OvRemove(r) ==
    /\ runs[r].pc = "Remove"
    /\ tmp' = Remove(tmp, {runs[r].tempFile})
    /\ RunStep(r, [runs[r] EXCEPT !.pc = IF runs[r].err = Pending THEN "MkdirAll" ELSE "returned"])
    /\ UNCHANGED <<alone, now>>

\* createVideoSequential, lines 282-286
OvMkdirAll(r) ==
    /\ runs[r].pc = "MkdirAll"
    /\ tmp' = IF TempDirName(now) \in DOMAIN tmp THEN tmp ELSE WriteFile(tmp, TempDirName(now), 0)
    /\ RunStep(r, [runs[r] EXCEPT !.pc = "SavePNG", !.tempDir = TempDirName(now)])
    /\ UNCHANGED <<alone, now>>

\* createVideoSequential, lines 289-299: os.Create fails in a directory that is gone
OvSavePNG(r) ==
    /\ runs[r].pc = "SavePNG"
    /\ runs[r].i < OverlapFrames
    /\ IF runs[r].tempDir \in DOMAIN tmp
       THEN /\ tmp' = WriteFile(tmp, Join(runs[r].tempDir, FrameFileName(runs[r].i)), r)
            /\ RunStep(r, [runs[r] EXCEPT !.i = @ + 1])
       ELSE /\ tmp' = tmp
            /\ RunStep(r, [runs[r] EXCEPT !.pc = "RemoveAll", !.err = SaveError(runs[r].i)])
    /\ UNCHANGED <<alone, now>>

\* createVideoSequential, line 302: the encoder reads the frames of the directory
OvAssembleVideo(r) ==
    /\ runs[r].pc = "SavePNG"
    /\ runs[r].i >= OverlapFrames
    /\ RunStep(r, [runs[r] EXCEPT !.pc = "RemoveAll", !.err = Nil,
                                   !.encoded = {tmp[q] : q \in Inside(tmp, runs[r].tempDir)}])
    /\ UNCHANGED <<alone, now, tmp>>

\* createVideoSequential, line 286: the deferred os.RemoveAll(tempDir)
OvRemoveAll(r) ==
    /\ runs[r].pc = "RemoveAll"
    /\ tmp' = Remove(tmp, {runs[r].tempDir} \cup Inside(tmp, runs[r].tempDir))
    /\ RunStep(r, [runs[r] EXCEPT !.pc = "returned"])
    /\ UNCHANGED <<alone, now>>

NextOverlap ==
    \/ Tick
    \/ \E r \in OverlapRuns : OvConvert(r)
    \/ \E r \in OverlapRuns : OvReadFile(r)
    \/ \E r \in OverlapRuns : OvRemove(r)
    \/ \E r \in OverlapRuns : OvMkdirAll(r)
    \/ \E r \in OverlapRuns : OvSavePNG(r)
    \/ \E r \in OverlapRuns : OvAssembleVideo(r)
    \/ \E r \in OverlapRuns : OvRemoveAll(r)

InitOverlap ==
    /\ Init
    /\ entry = "Generate"
    /\ cfg = BaseConfig
    /\ fileDuration = OverlapFrames
    /\ audio = "sweep"

SpecOverlap == InitOverlap /\ [][NextOverlap]_vars

(***************************************************************************)
(* visualizer.go: loadAudio and precomputeSpectrum, frame by frame, on the *)
(* Visualizer an of a valid configuration.                                 *)
(***************************************************************************)
\* what no step of the analysis changes
run ==
    <<entry, cfg, fileDuration, audio, numWorkers, now, pc, v, cvRet, genRet,
      tempDir, dirExists, files, i, frame, jobs, jobsClosed, errors,
      errorsClosed, wg, wpc, wjob, calls, rendered, written, failed, writers,
      progress, reported, encoded, runs, tmp, dr>>

\* the default rate and the smallest bar count, a track of AnMaxFrames frames
\* whose samples end inside the window of the first frame
BaseAnalysis ==
    [IdleAnalysis EXCEPT
        !.config = [FPS |-> DefaultConfig.FPS, Duration |-> 0, BarCount |-> MinBarCount],
        !.fileDuration = AnMaxFrames,
        !.track = [signal |-> "sweep", samples |-> WindowSize - 1]]

AnalysisInputs ==
    {[BaseAnalysis EXCEPT !.config.Duration = d, !.fileDuration = fd] :
        d \in {0, 2, AnMaxFrames + 1}, fd \in 0..AnMaxFrames}
    \cup {[BaseAnalysis EXCEPT !.config.FPS = MinFPS, !.fileDuration = fd] :
        fd \in {DurUnit - 1, DurUnit, DurUnit + DurUnit \div 2, 2 * DurUnit}}
    \cup {[BaseAnalysis EXCEPT !.config.FPS = MaxFPS, !.fileDuration = fd] : fd \in {0, 1}}
    \cup {[BaseAnalysis EXCEPT !.track = [signal |-> sg, samples |-> n]] :
        sg \in {"sweep", "nan"},
        n \in {0, 1, WindowSize - 1, WindowSize, WindowSize + 1,
               WindowSize + SampleRate \div DefaultConfig.FPS,
               WindowSize + AnMaxFrames * (SampleRate \div DefaultConfig.FPS)}}
    \cup {[BaseAnalysis EXCEPT !.config.BarCount = n, !.track.signal = sg] :
        n \in {MinBarCount, DefaultConfig.BarCount, MaxBarCount}, sg \in AnalysisAudio}

\* loadAudio, lines 110-118, and what extractAudioData leaves in audioData
AnLoadAudio ==
    /\ an.pc = "idle"
    /\ an' = [an EXCEPT !.duration = RunDuration(an.config, an.fileDuration),
                        !.totalFrames = TotalFrames(an.config, an.fileDuration),
                        !.sampleRate = SampleRate,
                        !.audioData = an.track,
                        !.pc = "precomputeSpectrum"]
    /\ UNCHANGED run

\* precomputeSpectrum, lines 170-173: the table is made with totalFrames entries
AnMakeTable ==
    /\ an.pc = "precomputeSpectrum"
    /\ an' = [an EXCEPT !.windowSize = WindowSize,
                        !.hopLength = an.sampleRate \div an.config.FPS,
                        !.spectrumData = [f \in 1..an.totalFrames |-> <<>>],
                        !.frame = 0,
                        !.pc = "loop"]
    /\ UNCHANGED run

\* lines 176-191: the loop test and the window of the frame
AnWindow ==
    /\ an.pc = "loop"
    /\ an.frame < an.totalFrames
    /\ LET slice == SliceOf(an.audioData, an.frame, an.hopLength, an.windowSize)
       IN  an' = [an EXCEPT !.slice = slice,
                            !.window = WindowOf(an.audioData, slice, an.windowSize),
                            !.pc = "fft"]
    /\ UNCHANGED run

\* lines 193-202
AnFFT ==
    /\ an.pc = "fft"
    /\ an' = [an EXCEPT !.magnitudes = Magnitudes(an.window, an.audioData.signal, an.frame),
                        !.pc = "bin"]
    /\ UNCHANGED run

\* line 205: the frame's entry is the result of binFrequencies
AnBin ==
    /\ an.pc = "bin"
    /\ LET bins == binFrequencies(an.magnitudes, an.config.BarCount, an.sampleRate,
                                  an.windowSize)
       IN  an' = [an EXCEPT
                     !.means = [b \in 1..an.config.BarCount |->
                                   BandMean(an.magnitudes,
                                            BandBins(an.config.BarCount, b - 1, an.sampleRate,
                                                     Len(an.magnitudes)))],
                     !.raw = Append(@, bins),
                     !.spectrumData[an.frame + 1] = bins,
                     !.pc = "smooth"]
    /\ UNCHANGED run

\* line 211 reads the entry of frame-1 as the table holds it
PrevFrameUnsmoothed(table, raw, f) == raw[f]

PrevFrame(table, raw, f) == table[f]

\* lines 208-213, and frame++
AnSmooth ==
    /\ an.pc = "smooth"
    /\ an' = [an EXCEPT
                 !.spectrumData[an.frame + 1] =
                     IF an.frame > 0
                     THEN [b \in 1..Len(@) |->
                              Smooth(@[b], PrevFrame(an.spectrumData, an.raw, an.frame)[b])]
                     ELSE @,
                 !.frame = @ + 1,
                 !.pc = "loop"]
    /\ UNCHANGED run

\* line 216: return nil
AnReturns ==
    /\ an.pc = "loop"
    /\ an.frame >= an.totalFrames
    /\ an' = [an EXCEPT !.pc = "done"]
    /\ UNCHANGED run

NextAnalysis ==
    \/ AnLoadAudio
    \/ AnMakeTable
    \/ AnWindow
    \/ AnFFT
    \/ AnBin
    \/ AnSmooth
    \/ AnReturns

InitAnalysis ==
    /\ InitRun
    /\ entry = "CreateVideo"
    /\ cfg = BaseConfig
    /\ fileDuration = 0
    /\ audio = "silence"
    /\ an \in AnalysisInputs
    /\ dr = IdleDraw

SpecAnalysis == InitAnalysis /\ [][NextAnalysis]_vars

(***************************************************************************)
(* SpecDraw: generateFrame's draw function on the magnitudes of a frame,   *)
(* one band of the loop at a step.                                         *)
(***************************************************************************)
undrawn ==
    <<entry, cfg, fileDuration, audio, numWorkers, now, pc, v, cvRet, genRet,
      tempDir, dirExists, files, i, frame, jobs, jobsClosed, errors,
      errorsClosed, wg, wpc, wjob, calls, rendered, written, failed, writers,
      progress, reported, encoded, runs, tmp, an>>

\* generateFrame, lines 396-409: the context cleared to the background and the
\* magnitudes of the frame, here two values in turn: values at and next to the
\* literals the draw functions compare with, on the smallest frame and on the
\* default one
DrawInputs ==
    LET DrawHeights == {MinHeight, BaseConfig.Height}
        DrawMagnitudes == {0, 9, 10, 49, 50, 500, 501, MagScale}
    IN  {[pc |-> "draw",
          v |-> NewVisualizer([BaseConfig EXCEPT !.VisType = style, !.Height = h,
                                                 !.BarCount = MinBarCount]),
          magnitudes |-> [b \in 1..MinBarCount |-> IF b % 2 = 1 THEN odd ELSE even],
          i |-> 0,
          dc |-> NewContext] :
            style \in VisTypeConsts, h \in DrawHeights,
            odd \in DrawMagnitudes, even \in DrawMagnitudes}

\* one pass of the loop of the draw function fn, which leaves the context dc
DrawStep(fn, dc) ==
    /\ dr.pc = "draw"
    /\ drawStyle(dr.v) = fn
    /\ dr.i < Len(dr.magnitudes)
    /\ dr' = [dr EXCEPT !.dc = dc, !.i = @ + 1]
    /\ UNCHANGED undrawn

BarsBand == DrawStep("drawBars", drawBars(dr.dc, dr.v, dr.i, dr.magnitudes[dr.i + 1]))

CircularBand ==
    DrawStep("drawCircular", drawCircular(dr.dc, dr.v, dr.i, dr.magnitudes[dr.i + 1]))

WaveBand == DrawStep("drawWave", drawWave(dr.dc, dr.v, dr.i, dr.magnitudes[dr.i + 1]))

RadialBand ==
    DrawStep("drawRadial", drawRadial(dr.dc, dr.v, dr.i, dr.magnitudes[dr.i + 1]))

LineBand == DrawStep("drawLine", drawLine(dr.dc, dr.v, dr.i, dr.magnitudes[dr.i + 1]))

DotsBand == DrawStep("drawDots", drawDots(dr.dc, dr.v, dr.i, dr.magnitudes[dr.i + 1]))

MirrorBand ==
    DrawStep("drawMirror", drawMirror(dr.dc, dr.v, dr.i, dr.magnitudes[dr.i + 1]))

SpiralBand ==
    DrawStep("drawSpiral", drawSpiral(dr.dc, dr.v, dr.i, dr.magnitudes[dr.i + 1]))

\* the loop is over: generateFrame returns the context
DrawReturns ==
    /\ dr.pc = "draw"
    /\ dr.i = Len(dr.magnitudes)
    /\ dr' = [dr EXCEPT !.pc = "done"]
    /\ UNCHANGED undrawn

NextDraw ==
    \/ BarsBand
    \/ CircularBand
    \/ WaveBand
    \/ RadialBand
    \/ LineBand
    \/ DotsBand
    \/ MirrorBand
    \/ SpiralBand
    \/ DrawReturns

InitDraw ==
    /\ InitRun
    /\ entry = "CreateVideo"
    /\ cfg = BaseConfig
    /\ fileDuration = 0
    /\ audio = "silence"
    /\ an = IdleAnalysis
    /\ dr \in DrawInputs

SpecDraw == InitDraw /\ [][NextDraw]_vars

(***************************************************************************)
(* SpecColor: the colour lookup of a draw function, color :=               *)
(* v.getColor(magnitude) and dc.SetColor(color), under the fire scheme at  *)
(* every magnitude k / MagScale of [0, 1].                                 *)
(***************************************************************************)
ColorLookup ==
    /\ dr.pc = "color"
    /\ getColor(dr.v) = "getFireColor"
    /\ dr' = [dr EXCEPT !.dc = SetColor(dr.dc, getFireColor(dr.magnitudes[1])),
                        !.pc = "colored"]
    /\ UNCHANGED undrawn

InitColor ==
    /\ InitRun
    /\ entry = "CreateVideo"
    /\ cfg = BaseConfig
    /\ fileDuration = 0
    /\ audio = "silence"
    /\ an = IdleAnalysis
    /\ \E magnitude \in 0..MagScale :
          dr = [IdleDraw EXCEPT
                   !.pc = "color",
                   !.v = NewVisualizer([BaseConfig EXCEPT !.ColorScheme = "fire"]),
                   !.magnitudes = <<magnitude>>]

SpecColor == InitColor /\ [][ColorLookup]_vars

(***************************************************************************)
(* SpecZero: the draw functions on the all-zero magnitudes generateFrame   *)
(* makes for a frame index beyond the table, on the smallest and the       *)
(* largest valid width, height and bar count.                              *)
(***************************************************************************)
InitZero ==
    /\ InitRun
    /\ entry = "CreateVideo"
    /\ cfg = BaseConfig
    /\ fileDuration = 0
    /\ audio = "silence"
    /\ an = IdleAnalysis
    /\ \E style \in VisTypeConsts, w \in {MinWidth, MaxWidth}, h \in {MinHeight, MaxHeight},
          n \in {MinBarCount, MaxBarCount} :
          LET vz == NewVisualizer([BaseConfig EXCEPT !.VisType = style, !.Width = w,
                                                     !.Height = h, !.BarCount = n])
          IN  dr = [IdleDraw EXCEPT !.pc = "draw",
                                    !.v = vz,
                                    !.magnitudes = generateFrame(vz, 0).magnitudes]

SpecZero == InitZero /\ [][NextDraw]_vars

(***************************************************************************)
(* Claims.                                                                 *)
(***************************************************************************)
Parallel == cfg.ProcessType = "parallel"

Indices == 0..(v.totalFrames - 1)

FramePaths == {Join(tempDir, FrameFileName(k)) : k \in Indices}

\* C1: in parallel mode no index is rendered or written twice and each written
\* index has one writer, a worker; when the workers have stopped and no write
\* failed, every index of [0, totalFrames) has been rendered once and written
\* once, the directory holds one file per index, under the name derived from
\* the index, and the file holds the frame of that index.
C1_ParallelExactlyOnce ==
    Parallel =>
        /\ \A k \in DOMAIN rendered : k \in Indices /\ rendered[k] = 1
        /\ \A k \in DOMAIN written :
               /\ written[k] = 1
               /\ Cardinality(writers[k]) = 1
               /\ writers[k] \subseteq 1..numWorkers
        /\ (pc \in {"range errors", "assembleVideo"} /\ DOMAIN failed = {}) =>
               /\ DOMAIN rendered = Indices
               /\ DOMAIN written = Indices
               /\ DOMAIN files = FramePaths
               /\ Cardinality(DOMAIN files) = v.totalFrames
               /\ \A k \in Indices : files[Join(tempDir, FrameFileName(k))] = generateFrame(v, k)

C1_Witness ==
    /\ Parallel
    /\ pc = "assembleVideo"
    /\ DOMAIN failed = {}
    /\ v.totalFrames >= 3
    /\ \E a, b \in DOMAIN writers : writers[a] # writers[b]

\* what the loop of createVideoSequential leaves in directory dir when no write fails
RECURSIVE SequentialFrames(_, _, _)
SequentialFrames(vz, dir, n) ==
    IF n = 0 THEN NoFiles
    ELSE WriteFile(SequentialFrames(vz, dir, n - 1),
                   Join(dir, FrameFileName(n - 1)), generateFrame(vz, n - 1))

\* C2: in either mode, the frames the encoder is handed are those the sequential
\* loop produces from the same Visualizer: the same file names, each with the
\* same frame, whatever the number of workers and the order they finish in.
C2_SameFramesAsSequential ==
    calls.encoder > 0 =>
        /\ DOMAIN encoded = DOMAIN SequentialFrames(v, tempDir, v.totalFrames)
        /\ \A q \in DOMAIN encoded : encoded[q] = SequentialFrames(v, tempDir, v.totalFrames)[q]

C2_Witness ==
    /\ Parallel
    /\ calls.encoder > 0
    /\ audio = "sweep"
    /\ Cardinality({encoded[q] : q \in DOMAIN encoded}) >= 3
    /\ \E a, b \in DOMAIN writers : a < b /\ writers[a] = {2} /\ writers[b] = {1}

\* C3: in parallel mode createVideoParallel goes on to its error check only when
\* every worker has returned; if a write failed, it returns an error, and the
\* error is the first one sent on the errors channel; a frame whose write failed
\* was rendered once, failed once and was never written.
C3_ParallelReportsFirstError ==
    Parallel =>
        /\ (calls.mkdir > 0 /\ pc \in {"range errors", "assembleVideo", "CreateVideo returned", "done"}) =>
               \A w \in 1..numWorkers : wpc[w] = "returned"
        /\ (DOMAIN failed # {} /\ pc \in {"CreateVideo returned", "done"}) =>
               /\ IsError(cvRet)
               /\ reported # <<>>
               /\ cvRet = reported[1]
               /\ cvRet.frame \in DOMAIN failed
               /\ calls.encoder = 0
        /\ \A k \in DOMAIN failed :
               failed[k] = 1 /\ Count(rendered, k) = 1 /\ Count(written, k) = 0

C3_Witness ==
    /\ Parallel
    /\ pc = "CreateVideo returned"
    /\ Len(reported) = 2
    /\ reported[1].frame > reported[2].frame
    /\ cvRet = reported[1]

\* C4: once createVideoSequential or createVideoParallel has returned (after the
\* encoder ran or failed, after a failed write, after a failed MkdirAll), the
\* temporary directory and the frames in it do not exist.
C4_TempDirRemoved ==
    pc \in {"CreateVideo returned", "done"} => ~dirExists /\ DOMAIN files = {}

C4_Witness ==
    /\ pc = "CreateVideo returned"
    /\ calls.mkdir = 1
    /\ DOMAIN written # {}
    /\ DOMAIN failed # {}
    /\ ~dirExists

Active(r) == runs[r].pc \notin {"Generate", "returned"}

\* C5: two runs that overlap in time never use the same raw-audio file nor the
\* same frame directory, no run reads samples another run wrote, and the encoder
\* of a run finds only frames of its own run.
C5_TempFilesPrivate ==
    /\ \A r1, r2 \in OverlapRuns :
           (r1 # r2 /\ Active(r1) /\ Active(r2)) =>
               /\ runs[r1].tempFile # NoPath => runs[r1].tempFile # runs[r2].tempFile
               /\ runs[r1].tempDir # NoPath => runs[r1].tempDir # runs[r2].tempDir
    /\ \A r \in OverlapRuns :
           /\ runs[r].audioData \in {0, r}
           /\ runs[r].encoded \subseteq {r}
           /\ runs[r].pc = "returned" => runs[r].err = Nil

\* C6, as claimed: once a write has failed, no further frame is rendered.
C6_NoRenderAfterFailure == [][DOMAIN failed # {} => rendered' = rendered]_vars

\* C6, amended: in sequential mode nothing is rendered or written once a write
\* has failed; in parallel mode the worker whose write failed takes no further
\* job (the other workers go on with the queued frames), and in neither mode
\* is the encoder run once a write has failed.
C6_FailedWorkerStops ==
    [][/\ (~Parallel /\ DOMAIN failed # {}) => (rendered' = rendered /\ written' = written)
       /\ \A w \in Workers :
              wjob[w].frameIdx \in DOMAIN failed =>
                  /\ wjob'[w] = wjob[w]
                  /\ wpc'[w] \in {"errors <-", "returned"}
       /\ DOMAIN failed # {} => calls'.encoder = calls.encoder]_vars

C6_Witness ==
    /\ Parallel
    /\ \E w1, w2 \in Workers :
           /\ wpc[w1] = "returned"
           /\ wjob[w1].frameIdx \in DOMAIN failed
           /\ wpc[w2] = "SavePNG"
           /\ wjob[w2].frameIdx > wjob[w1].frameIdx + 1
    /\ reported # <<>>

\* C7: in sequential mode, with i the loop index: frames 0 .. i-1 have been
\* rendered once and written once, frame i has been rendered once when its write
\* is due or has failed, and no other frame has been rendered; a failed write of
\* frame i makes createVideoSequential return the error that names frame i; a
\* progress line has been printed for the rendered indices that are multiples of
\* 30 and for no other.
C7_SequentialInOrder ==
    (~Parallel /\ calls.mkdir > 0) =>
        /\ i <= v.totalFrames
        /\ DOMAIN written = 0..(i - 1)
        /\ DOMAIN rendered = IF pc = "seq save" \/ DOMAIN failed # {} THEN 0..i ELSE 0..(i - 1)
        /\ \A k \in DOMAIN written : written[k] = 1 /\ writers[k] = {0}
        /\ \A k \in DOMAIN rendered : rendered[k] = 1
        /\ DOMAIN failed # {} =>
               /\ DOMAIN failed = {i}
               /\ failed[i] = 1
               /\ pc \in {"CreateVideo returned", "done"}
               /\ cvRet.frame = i
               /\ cvRet.wrap = <<"saving frame">>
               /\ calls.encoder = 0
        /\ progress = {k \in DOMAIN rendered : k % 30 = 0}

C7_Witness ==
    /\ ~Parallel
    /\ DOMAIN failed = {30}
    /\ cvRet.frame = 30
    /\ progress = {0, 30}
    /\ DOMAIN written = 0..29

C9_NoSilentDefault ==
    /\ DOMAIN rendered # {} =>
           /\ cfg.VisType \in VisTypeConsts
           /\ cfg.ColorScheme \in ColorSchemeConsts
           /\ cfg.BGColor \in BGColorConsts
    /\ \A q \in DOMAIN files :
           /\ files[q].draw = "drawBars" => cfg.VisType = "bars"
           /\ files[q].color = "getRainbowColor" => cfg.ColorScheme = "rainbow"
           /\ files[q].background = <<0, 255, 0, 255>> => cfg.BGColor = "green"

\* the configurations C10 says Generate accepts
C10_InRange(c) ==
    /\ c.FPS \in 1..120
    /\ c.Duration >= 0
    /\ c.BarCount \in 8..256
    /\ c.Width \in 320..7680
    /\ c.Height \in 240..4320
    /\ c.ColorScheme \in ColorSchemeConsts
    /\ c.VisType \in VisTypeConsts
    /\ c.BGColor \in BGColorConsts
    /\ c.ProcessType \in {"fast", "parallel"}

\* Generate has returned an error without calling CreateVideo
C10_Rejected == pc = "done" /\ cvRet = Pending /\ IsError(genRet)

\* C10, as claimed: Generate rejects a configuration exactly when it is outside
\* the ranges.
C10_AcceptsExactlyInRange ==
    (entry = "Generate" /\ pc \notin {"Generate", "validateConfig"}) =>
        (C10_Rejected <=> ~C10_InRange(cfg))

\* C10, amended: Generate goes on to NewVisualizer and CreateVideo exactly when
\* the input file is named and exists and the configuration is inside the
\* ranges, and returns an error otherwise ("invalid configuration" when only the
\* ranges fail); at that return nothing has been processed: no ffprobe, no
\* decoding, no spectrum, no directory, no frame, no encoder.
C10_ValidationFirst ==
    entry = "Generate" =>
        /\ pc \notin {"Generate", "validateConfig"} =>
               /\ C10_Rejected <=> ~(cfg.InputFile \in ExistingFiles /\ C10_InRange(cfg))
               /\ ~C10_Rejected <=> (v # NoVisualizer \/ pc = "NewVisualizer")
               /\ (C10_Rejected /\ cfg.InputFile \in ExistingFiles) =>
                      genRet.wrap = <<"invalid configuration">>
        /\ (pc = "done" /\ cvRet = Pending) =>
               /\ IsError(genRet)
               /\ calls = NoCalls
               /\ v = NoVisualizer
               /\ tempDir = NoPath /\ ~dirExists /\ DOMAIN files = {}
               /\ DOMAIN rendered = {} /\ DOMAIN written = {} /\ DOMAIN encoded = {}

C10_Witness ==
    /\ entry = "Generate"
    /\ C10_Rejected
    /\ genRet.wrap = <<"invalid configuration">>
    /\ cfg.Width = 7681
    /\ cfg.Height = 720


(***************************************************************************)
(* C11.  The schemes of the README against IsValid, validateConfig and     *)
(* GetColorSchemes.                                                        *)
(***************************************************************************)
\* C11: a configuration naming one of the 15 colour schemes the README lists
\* is not rejected by Generate for its colour scheme, and that scheme passes
\* ColorScheme.IsValid and is among the schemes GetColorSchemes returns.
C11_ListedSchemesSelectable ==
    (entry = "Generate" /\ cfg.ColorScheme \in ReadmeColorSchemes /\ pc = "done") =>
        /\ genRet.kind # "invalid color scheme"
        /\ ColorSchemeIsValid(cfg.ColorScheme)
        /\ cfg.ColorScheme \in GetColorSchemes


(***************************************************************************)
(* C12.  The stage named by a returned error.                              *)
(***************************************************************************)
\* the outermost prefix of an error of CreateVideo, "" when it has none
StageTag(e) == IF e.wrap = <<>> THEN "" ELSE Head(e.wrap)

\* C12: every error CreateVideo returns carries the tag of the stage that
\* produced it: "loading audio" for ffprobe and the decoder, "saving frame" for
\* a frame write, and a tag of its own, different from those of the other
\* stages, for the encoder; through Generate the tag follows "failed to
\* generate video".
C12_ErrorNamesStage ==
    (pc \in {"CreateVideo returned", "done"} /\ IsError(cvRet)) =>
        /\ StageTag(cvRet) # ""
        /\ calls.encoder > 0 =>
               StageTag(cvRet) \notin {"loading audio", "computing spectrum",
                                       "creating temp dir", "saving frame"}
        /\ DOMAIN failed # {} => StageTag(cvRet) = "saving frame"
        /\ calls.spectrum = 0 => StageTag(cvRet) = "loading audio"
        /\ (entry = "Generate" /\ pc = "done") =>
               genRet.wrap = <<"failed to generate video">> \o cvRet.wrap


(***************************************************************************)
(* C13.  The spectrum table after precomputeSpectrum.                      *)
(***************************************************************************)
\* the duration C13 counts the frames of: the configured one, the full length
\* of the audio when the configured one is 0
C13_Duration == IF an.config.Duration = 0 THEN an.fileDuration ELSE an.config.Duration

\* C13: after precomputeSpectrum the table has exactly floor(duration * fps)
\* vectors, every vector has exactly barCount elements, and every element lies
\* in [0,1], for any valid configuration and any sample buffer.
C13_TableShape ==
    an.pc = "done" =>
        /\ Len(an.spectrumData) = (C13_Duration * an.config.FPS) \div DurUnit
        /\ \A f \in 1..Len(an.spectrumData) :
               /\ Len(an.spectrumData[f]) = an.config.BarCount
               /\ \A b \in 1..Len(an.spectrumData[f]) :
                      an.spectrumData[f][b] \in 0..MagScale


(***************************************************************************)
(* C14.  When the encoder runs.                                            *)
(***************************************************************************)
\* C14: assembleVideo is invoked at most once per run; when it is about to be
\* invoked, and once it has been, no frame write has failed, every index of
\* [0, totalFrames) has been written and, in parallel mode, every worker has
\* returned; the directory it reads holds the file of every index; a run in
\* which a frame write failed never invokes it.
C14_EncoderOnceAfterAllFrames ==
    /\ calls.encoder <= 1
    /\ (pc = "assembleVideo" \/ calls.encoder > 0) =>
           /\ DOMAIN failed = {}
           /\ \A idx \in Indices : Count(written, idx) >= 1
           /\ Parallel => (wg = 0 /\ \A w \in 1..numWorkers : wpc[w] = "returned")
    /\ calls.encoder > 0 => FramePaths \subseteq DOMAIN encoded
    /\ DOMAIN failed # {} => (calls.encoder = 0 /\ pc # "assembleVideo")

C14_Witness ==
    /\ Parallel
    /\ numWorkers > 1
    /\ calls.encoder = 1
    /\ v.totalFrames = MaxDur
    /\ pc = "done"


(***************************************************************************)
(* C15.  createVideoParallel comes to an end.                              *)
(***************************************************************************)
\* the run is over: CreateVideo has returned to its caller
C15_Returned ==
    pc = (IF entry = "Generate" THEN "done" ELSE "CreateVideo returned")

\* C15: in createVideoParallel the send of a job never finds the jobs channel
\* full and the send of an error never finds the errors channel full, the
\* function returns in every run, whatever writes fail, and when it has
\* returned every worker has returned and the errors channel was closed.
C15_ParallelTerminates ==
    /\ []((pc = "send jobs" /\ i < v.totalFrames) => Len(jobs) < JobsCap)
    /\ [](\A w \in Workers : wpc[w] = "errors <-" => Len(errors) < ErrorsCap)
    /\ <>C15_Returned
    /\ []((C15_Returned /\ calls.mkdir > 0) =>
             (wg = 0 /\ errorsClosed /\ \A w \in 1..numWorkers : wpc[w] = "returned"))

C15_Witness ==
    /\ C15_Returned
    /\ numWorkers = MaxWorkers
    /\ v.totalFrames = MaxDur
    /\ Len(reported) = numWorkers
    /\ DOMAIN written = {}


(***************************************************************************)
(* C16.  Temporal smoothing.                                               *)
(***************************************************************************)
\* 0.85 * cur + 0.15 * prev
C16_Blend(cur, prev) ==
    IF cur = NaN \/ prev = NaN THEN NaN ELSE (cur * 85 + prev * 15) \div 100

\* C16: of every frame the loop of precomputeSpectrum has finished, the stored
\* vector of frame 0 is its unsmoothed vector, and the stored value of band b
\* of a later frame f is 0.85 times the unsmoothed value of band b of frame f
\* plus 0.15 times the stored (smoothed) value of band b of frame f-1.
C16_SmoothedInFrameOrder ==
    \A f \in 1..an.frame :
        /\ Len(an.spectrumData[f]) = Len(an.raw[f])
        /\ \A b \in 1..Len(an.raw[f]) :
               an.spectrumData[f][b] =
                   IF f = 1 THEN an.raw[f][b]
                   ELSE C16_Blend(an.raw[f][b], an.spectrumData[f - 1][b])

C16_Witness ==
    /\ an.pc = "done"
    /\ an.frame >= 3
    /\ an.spectrumData[1] = an.raw[1]
    /\ an.spectrumData[2] # an.raw[2]
    /\ \E b \in 1..Len(an.raw[3]) :
           /\ an.spectrumData[3][b] # C16_Blend(an.raw[3][b], an.raw[2][b])
           /\ an.spectrumData[3][b] # an.raw[3][b]


(***************************************************************************)
(* C17.  The analysis window of a frame.                                   *)
(***************************************************************************)
\* samples[p] of the buffer, 0 past its end
C17_Padded(p) ==
    IF p < an.audioData.samples THEN Sample(an.audioData.signal, p) ELSE 0

\* C17: the window built for frame f has exactly 2048 entries and entry k is
\* samples[f*hop + k], hop = sampleRate / fps, or 0 where that position is past
\* the end of the buffer; the slice of the buffer that is copied lies within
\* the buffer, also when f*hop is at or beyond its end and when it is empty.
C17_WindowZeroPadded ==
    an.pc \in {"fft", "bin", "smooth"} =>
        /\ Len(an.window) = 2048
        /\ \A k \in 1..Len(an.window) :
               an.window[k] =
                   C17_Padded(an.frame * (an.sampleRate \div an.config.FPS) + k - 1)
        /\ an.slice.taken =>
               (0 <= an.slice.lo /\ an.slice.lo <= an.slice.hi
                /\ an.slice.hi <= an.audioData.samples)

C17_Witness ==
    /\ an.pc = "fft"
    /\ an.audioData.signal = "sweep"
    /\ an.audioData.samples > 0
    /\ an.frame * an.hopLength >= an.audioData.samples
    /\ \A k \in 1..Len(an.window) : an.window[k] = 0


(***************************************************************************)
(* C18.  The FFT bins of a band.                                           *)
(***************************************************************************)
\* the bins whose frequency, j * sampleRate / windowSize, lies within the edges
\* of band i (counted from 0)
C18_InBand(barCount, band, sampleRate, windowSize, nmag) ==
    {j \in 0..(nmag - 1) :
        /\ freqBins(barCount)[band + 1] * windowSize <= j * sampleRate * FreqUnit
        /\ j * sampleRate * FreqUnit <= freqBins(barCount)[band + 2] * windowSize}

\* C18, as claimed: the bins binFrequencies averages for a band are valid
\* indices of the magnitude array and are exactly the bins whose frequency lies
\* within the band's edges, and the band's value before normalisation is their
\* arithmetic mean, 0 when there is no such bin.
C18_BandIsMeanOfInBandBins ==
    an.pc = "smooth" =>
        \A b \in 1..an.config.BarCount :
            LET nmag == Len(an.magnitudes)
                used == BandBins(an.config.BarCount, b - 1, an.sampleRate, nmag)
                inBand == C18_InBand(an.config.BarCount, b - 1, an.sampleRate,
                                     an.windowSize, nmag)
            IN  /\ used \subseteq 0..(nmag - 1)
                /\ used = inBand
                /\ an.means[b] = BandMean(an.magnitudes, inBand)


\* the last bin whose frequency is at or below edge
C18_BinAtOrBelow(edge, sampleRate, windowSize, nmag) ==
    CHOOSE j \in 0..(nmag - 1) :
        /\ j * sampleRate * FreqUnit <= edge * windowSize
        /\ (j + 1) * sampleRate * FreqUnit > edge * windowSize

\* C18, amended: the bins binFrequencies averages for a band are the bins from
\* the last bin at or below the band's lower edge to the last bin at or below
\* its upper edge: valid indices, never none, every bin within the edges among
\* them and besides those only the first, which lies below the lower edge
\* unless it is on it; the band's value before normalisation is the arithmetic
\* mean of these bins, and its value is that mean divided by the window size
\* and scaled logarithmically into [0,1].
C18_BandIsMeanOfBinRange ==
    an.pc = "smooth" =>
        \A b \in 1..an.config.BarCount :
            LET nmag == Len(an.magnitudes)
                edges == freqBins(an.config.BarCount)
                first == C18_BinAtOrBelow(edges[b], an.sampleRate, an.windowSize, nmag)
                last == C18_BinAtOrBelow(edges[b + 1], an.sampleRate, an.windowSize, nmag)
                used == BandBins(an.config.BarCount, b - 1, an.sampleRate, nmag)
                inBand == C18_InBand(an.config.BarCount, b - 1, an.sampleRate,
                                     an.windowSize, nmag)
            IN  /\ used = first..last
                /\ used # {}
                /\ used \subseteq 0..(nmag - 1)
                /\ inBand \subseteq used
                /\ used \ inBand \subseteq {first}
                /\ an.means[b] = Over(SumOver(an.magnitudes, first, last), last - first + 1)
                /\ an.raw[an.frame + 1][b] = Compress(an.means[b], an.windowSize)

C18_Witness ==
    /\ an.pc = "smooth"
    /\ an.config.BarCount = 8
    /\ an.audioData.signal = "tone"
    /\ 7 \in BandBins(8, 0, an.sampleRate, Len(an.magnitudes))
    /\ 7 \notin C18_InBand(8, 0, an.sampleRate, an.windowSize, Len(an.magnitudes))
    /\ an.means[1] > 0
    /\ BandMean(an.magnitudes,
                C18_InBand(8, 0, an.sampleRate, an.windowSize, Len(an.magnitudes))) = 0

\* the glow overlay of band k is in the image
Glowed(k) ==
    \E n \in 1..Len(dr.dc.painted) :
        dr.dc.painted[n].band = k /\ dr.dc.painted[n].color = GlowColor

\* C19: in each of the 8 styles, once the draw function has passed band k, the
\* glow overlay of band k has been drawn if and only if the magnitude of band k
\* is strictly greater than 0.5
C19_GlowIffAboveHalf ==
    dr.pc # "idle" =>
        \A k \in 0..(dr.i - 1) : Glowed(k) <=> dr.magnitudes[k + 1] * 10 > 5 * MagScale

\* the bars drawMirror has filled for band k, in the order drawn
MirrorBars(k) ==
    SelectSeq(dr.dc.painted, LAMBDA p : p.band = k /\ p.op = "Fill")

\* the upper and the lower bar of band k have one height, one colour, one x and
\* one width and meet on the midline of the frame
MirrorSymmetric(k) ==
    LET bars == MirrorBars(k)
    IN  /\ Len(bars) = 2
        /\ bars[1].shape.h = bars[2].shape.h
        /\ bars[1].shape.w = bars[2].shape.w
        /\ bars[1].shape.x = bars[2].shape.x
        /\ bars[1].color = bars[2].color
        /\ bars[1].shape.y + bars[1].shape.h = bars[2].shape.y
        /\ 2 * bars[2].shape.y = dr.v.config.Height * MagScale

\* the bar drawBars fills for band k of the same frame
BarOfBars(k) == drawBars(NewContext, dr.v, k, dr.magnitudes[k + 1]).painted[1]

MirrorDrawn == dr.pc # "idle" /\ drawStyle(dr.v) = "drawMirror"

\* C20: for every band the mirror style has drawn, the height and the colour
\* lookup magnitude of its bars are the ones the bars style applies to the band
\* (same low-magnitude threshold, same floor height, same effective magnitude),
\* and the upper and the lower bar are equal and symmetric about the midline
C20_MirrorUsesBarsRule ==
    MirrorDrawn =>
        \A k \in 0..(dr.i - 1) :
            /\ MirrorSymmetric(k)
            /\ MirrorBars(k)[1].shape.h = BarOfBars(k).shape.h
            /\ MirrorBars(k)[1].color = BarOfBars(k).color

\* C20, amended: the mirror style has a height rule of its own: below 0.01 a bar
\* is 5 px high and coloured at 0.1, from 0.01 on it is 5 + magnitude * Height *
\* 0.35 px high and coloured at the magnitude; the upper and the lower bar are
\* equal and symmetric about the midline
C20_MirrorOwnRule ==
    MirrorDrawn =>
        \A k \in 0..(dr.i - 1) :
            LET magnitude == dr.magnitudes[k + 1]
                bar == MirrorBars(k)[1]
            IN  /\ MirrorSymmetric(k)
                /\ magnitude * 100 < MagScale =>
                      /\ bar.shape.h = 5 * MagScale
                      /\ bar.color.at * 10 = MagScale
                /\ magnitude * 100 >= MagScale =>
                      /\ bar.shape.h
                            = 5 * MagScale + (magnitude * dr.v.config.Height * 35) \div 100
                      /\ bar.color.at = magnitude

\* C20: the mirror style has drawn a frame that holds a band below 0.01 and a
\* band between 0.01 and 0.05, where the two styles differ in every part
C20_Witness ==
    /\ MirrorDrawn
    /\ dr.pc = "done"
    /\ \E k \in 0..(dr.i - 1) : dr.magnitudes[k + 1] * 100 < MagScale
    /\ \E k \in 0..(dr.i - 1) :
          /\ dr.magnitudes[k + 1] * 100 >= MagScale
          /\ dr.magnitudes[k + 1] * 100 < 5 * MagScale
          /\ Len(MirrorBars(k)) = 2


\* C21: the fire scheme returns (180, 0, 0) at magnitude 0.0 and (200, 255, 50)
\* at magnitude 1.0, and at every magnitude of [0, 1] each channel is within
\* 0..255 before its conversion to 8 bits, so that no conversion wraps around
C21_FireEndpointsNoWrap ==
    dr.pc = "colored" =>
        LET magnitude == dr.magnitudes[1]
        IN  /\ magnitude = 0 => dr.dc.color = <<180, 0, 0, 255>>
            /\ magnitude = MagScale => dr.dc.color = <<200, 255, 50, 255>>
            /\ \A c \in 1..3 : FireChannels(magnitude)[c] \in 0..255


\* what the draw function of the style has painted when it has passed passed
\* bands of an all-zero frame
ZeroShapes(fn, passed) ==
    CASE fn = "drawMirror" -> 2 * passed
      [] fn = "drawSpiral" -> 9 * passed
      [] fn = "drawLine" -> IF passed = 0 THEN 0 ELSE passed - 1
      [] OTHER -> passed

\* the shape p is at the floor of the style: strictly positive everywhere
AtFloor(fn, p) ==
    /\ p.lineWidth > 0
    /\ p.color # GlowColor
    /\ CASE fn \in {"drawBars", "drawMirror"} ->
               /\ p.op = "Fill"
               /\ p.shape.h = 5 * MagScale
               /\ p.shape.w * 10 >= 8 * MagScale
          [] fn = "drawCircular" -> p.shape.to - p.shape.from = 5 * MagScale
          [] fn = "drawWave" -> p.shape.half = 20 * MagScale
          [] fn = "drawRadial" -> p.shape.length = 10 * MagScale
          [] fn = "drawDots" -> p.op = "Fill" /\ p.shape.r = 3 * MagScale
          [] fn = "drawSpiral" -> p.lineWidth = 2 * MagScale
          [] OTHER -> p.lineWidth = 5 * MagScale

\* C22: on an all-zero magnitude vector every style draws every band it has
\* passed (one bar, two mirror bars, one ray, one wave line, one wedge, one dot,
\* nine spiral segments, one line segment from band 1 on), and every shape has
\* the floor dimension of its style: bar height 5 and bar width at least 0.8,
\* radial extent 5, half-height 20, wedge length 10, dot radius 3, thickness 2
C22_ZeroFrameAtFloor ==
    dr.pc # "idle" /\ (\A b \in DOMAIN dr.magnitudes : dr.magnitudes[b] = 0) =>
        /\ Len(dr.dc.painted) = ZeroShapes(drawStyle(dr.v), dr.i)
        /\ \A n \in 1..Len(dr.dc.painted) : AtFloor(drawStyle(dr.v), dr.dc.painted[n])

\* C22: a zero frame of the largest bar count on the narrowest frame has been
\* drawn to its end by the bars style, each bar 0.8 px wide
C22_Witness ==
    /\ dr.pc = "done"
    /\ drawStyle(dr.v) = "drawBars"
    /\ dr.v.config.BarCount = MaxBarCount
    /\ dr.v.config.Width = MinWidth
    /\ dr.i = MaxBarCount
    /\ \A b \in DOMAIN dr.magnitudes : dr.magnitudes[b] = 0
    /\ Len(dr.dc.painted) = MaxBarCount
    /\ dr.dc.painted[MaxBarCount].shape.w * 10 = 8 * MagScale

====
